---- MODULE Spec2Model ----
(***************************************************************************)
(* Model of the LLM generation ingestion pipeline of the MVP factory       *)
(* daemon: extractJSON (src/scripts/fix_extract.py) and kimiComplete with  *)
(* its streaming parser (src/fix_daemon.py, src/scripts/fix_streaming.py). *)
(*                                                                         *)
(* A text is a sequence of one-character strings.  A parsed JSON value is  *)
(* a node [t, s, kids]: t is "str", "arr", "obj" or "mem" (one member of   *)
(* an object, s its key and kids its one value); s is the characters of a  *)
(* string; kids are the elements of an array or the members of an object.  *)
(***************************************************************************)
EXTENDS Integers, Sequences, FiniteSets, TLC

\* ------------------------------------------------------------------
\* Characters and JavaScript string primitives
\* ------------------------------------------------------------------

QUOTE == "\""
BSLASH == "\\"
NEWLINE == "\n"
TAB == "\t"
\* The back quote (a fence is three of them); the token stands for the one
\* character, which a TLA+ string literal cannot hold.
BTICK == "BQ"

\* The characters JavaScript's \s and String.prototype.trim treat as white
\* space, among those the texts of the model are written in.
WhiteSpace == {" ", NEWLINE, TAB}

\* The characters the texts extractJSON is run on are written in.  No digit,
\* sign or letter of true, false, null or of a \u escape is complete in it, so
\* the JSON values that can occur are strings, arrays and objects.
Alphabet ==
    {"[", "]", "{", "}", ",", ":", QUOTE, BSLASH, BTICK, " ", NEWLINE, TAB,
     ".", "/", "p", "a", "t", "h", "c", "o", "n", "e", "j", "s", "x", "y", "d"}

IsWs(c) == c \in WhiteSpace

\* F applied to the value of v: v is evaluated once, however often F uses it.
Bind(v, F(_)) == CHOOSE r \in {F(x) : x \in {v}} : TRUE

RECURSIVE Flatten(_)
\* The concatenation of a sequence of texts.
Flatten(parts) ==
    IF parts = <<>> THEN <<>> ELSE Head(parts) \o Flatten(Tail(parts))

\* text.substring(from, to) with 1-based from and exclusive 1-based to.
Slice(t, from, to) ==
    Bind(<<IF from < 1 THEN 1 ELSE from, IF to > Len(t) + 1 THEN Len(t) + 1 ELSE to>>,
         LAMBDA b : IF b[2] <= b[1] THEN <<>> ELSE SubSeq(t, b[1], b[2] - 1))

\* The positions of sep in t, in order.
PositionsOf(t, sep) == SelectSeq([i \in 1..Len(t) |-> i], LAMBDA i : t[i] = sep)

\* text.split(sep) for a one-character separator.
Split(t, sep) ==
    Bind(<<0>> \o PositionsOf(t, sep) \o <<Len(t) + 1>>, LAMBDA cuts :
        [k \in 1..(Len(cuts) - 1) |-> Slice(t, cuts[k] + 1, cuts[k + 1])])

\* text.startsWith(pat, at) with a 1-based position.
StartsWithAt(t, pat, at) ==
    /\ at >= 1
    /\ at + Len(pat) - 1 <= Len(t)
    /\ \A k \in 1..Len(pat) : t[at + k - 1] = pat[k]

\* The first position >= i of t that holds no white space (Len(t) + 1 if none):
\* where a greedy \s* of a regular expression stops.
SkipWs(t, i) ==
    Bind({k \in i..Len(t) : ~IsWs(t[k])},
         LAMBDA stops : IF stops = {} THEN (IF i > Len(t) THEN i ELSE Len(t) + 1)
                        ELSE CHOOSE k \in stops : \A q \in stops : k <= q)

\* The last position <= i of t that holds no white space (0 if none).
SkipWsBack(t, i) ==
    Bind({k \in 1..i : ~IsWs(t[k])},
         LAMBDA stops : IF stops = {} THEN (IF i < 1 THEN i ELSE 0)
                        ELSE CHOOSE k \in stops : \A q \in stops : k >= q)

\* String.prototype.trim
Trim(t) ==
    Bind(t, LAMBDA tv : Slice(tv, SkipWs(tv, 1), SkipWsBack(tv, Len(tv)) + 1))

\* text.indexOf(pat, from) with 1-based positions; 0 stands for -1.
IndexOf(t, pat, from) ==
    Bind({p \in from..(Len(t) - Len(pat) + 1) : StartsWithAt(t, pat, p)},
         LAMBDA hits : IF hits = {} THEN 0
                       ELSE CHOOSE p \in hits : \A q \in hits : p <= q)

\* Whether position i of t is dropped by text.replace(/,\s*C/g, "C"): it holds
\* the comma of a match, or white space between that comma and the C.  (The
\* matches cannot overlap: each is a comma, white space and one C.)
DroppedBefore(t, close, i) ==
    \E c \in {SkipWsBack(t, i)} :
        /\ c >= 1
        /\ t[c] = ","
        /\ \E e \in {SkipWs(t, c + 1)} : e <= Len(t) /\ t[e] = close

\* text.replace(/,\s*C/g, "C"): a comma whose next character that is no white
\* space is C is dropped together with that white space.
ReplaceCommaBefore(t, close) ==
    Bind(t, LAMBDA tv :
        Bind(SelectSeq([i \in 1..Len(tv) |-> i],
                       LAMBDA i : ~DroppedBefore(tv, close, i)),
             LAMBDA kept : [k \in 1..Len(kept) |-> tv[kept[k]]]))

\* The trailing-comma repair of strategies 1, 2 and 3:
\* .replace(/,\s*}/g, "}").replace(/,\s*]/g, "]").  It looks at characters
\* only, so it also rewrites a comma inside a string literal.
RepairTrailingCommas(t) == ReplaceCommaBefore(ReplaceCommaBefore(t, "}"), "]")

\* for (let i = arrayStart; ... && i < arrayStart + 200000; i++)
ScanLimit == 200000
\* text.substring(arrayStart + 1, arrayStart + 50)
AfterBracketWindow == 50
\* for (let i = contentStart; ... && i < contentStart + 100000; i++)
SalvageLimit == 100000
\* text.substring(i + 1, i + 10)
RestWindow == 10

\* ------------------------------------------------------------------
\* JSON values, JSON.parse and JSON.stringify
\* ------------------------------------------------------------------

StrNode(chars) == [t |-> "str", s |-> chars, kids |-> <<>>]
ArrNode(elems) == [t |-> "arr", s |-> <<>>, kids |-> elems]
ObjNode(members) == [t |-> "obj", s |-> <<>>, kids |-> members]
MemNode(key, val) == [t |-> "mem", s |-> key, kids |-> <<val>>]

PATH == <<"p", "a", "t", "h">>
CONTENT == <<"c", "o", "n", "t", "e", "n", "t">>

\* The object { path: p, content: c } with its keys in that order.
FileObj(p, c) == ObjNode(<<MemNode(PATH, StrNode(p)), MemNode(CONTENT, StrNode(c))>>)

\* Whether object node o has a member named key.
HasKey(o, key) == \E k \in 1..Len(o.kids) : o.kids[k].s = key

\* o[key] for an object node that has the key.
GetKey(o, key) == o.kids[CHOOSE k \in 1..Len(o.kids) : o.kids[k].s = key].kids[1]

\* Setting a member as JSON.parse does: a repeated key keeps its first place
\* and takes the last value.
SetKey(members, key, val) ==
    IF \E k \in 1..Len(members) : members[k].s = key
    THEN [k \in 1..Len(members) |->
            IF members[k].s = key THEN MemNode(key, val) ELSE members[k]]
    ELSE Append(members, MemNode(key, val))

\* JavaScript truthiness of a value: every array and object, and every string
\* but the empty one; undefined is falsy.
Truthy(v) == v.t \in {"arr", "obj"} \/ (v.t = "str" /\ v.s # <<>>)

ParseFail == [ok |-> FALSE, v |-> StrNode(<<>>), pos |-> 0]
ParseOk(v, pos) == [ok |-> TRUE, v |-> v, pos |-> pos]

\* The character a JSON escape \e stands for, for the escapes the alphabet
\* can spell.
EscapeChars == {QUOTE, BSLASH, "/", "n", "t"}
Unescape(e) ==
    CASE e = "n" -> NEWLINE
      [] e = "t" -> TAB
      [] OTHER -> e

RECURSIVE ParseStringBody(_, _, _)
\* The rest of a string literal from position i (after its opening quote), acc
\* the characters decoded so far.  A raw control character, a bad escape or the
\* end of the text before the closing quote is a SyntaxError.
ParseStringBody(t, i, acc) ==
    IF i > Len(t) THEN ParseFail
    ELSE IF t[i] = QUOTE THEN ParseOk(StrNode(acc), i + 1)
    ELSE IF t[i] = BSLASH
         THEN IF i + 1 <= Len(t) /\ t[i + 1] \in EscapeChars
              THEN Bind(<<i + 2, Append(acc, Unescape(t[i + 1]))>>,
                        LAMBDA n : ParseStringBody(t, n[1], n[2]))
              ELSE ParseFail
    ELSE IF t[i] \in {NEWLINE, TAB} THEN ParseFail
    ELSE Bind(<<i + 1, Append(acc, t[i])>>, LAMBDA n : ParseStringBody(t, n[1], n[2]))

RECURSIVE ParseValue(_, _)
RECURSIVE ParseElements(_, _, _)
RECURSIVE ParseMembers(_, _, _)

\* One JSON value starting at the first non-blank position >= i.
ParseValue(t, i) ==
    Bind(SkipWs(t, i), LAMBDA j :
        IF j > Len(t) THEN ParseFail
        ELSE IF t[j] = QUOTE THEN ParseStringBody(t, j + 1, <<>>)
        ELSE IF t[j] \in {"[", "{"}
             THEN Bind(SkipWs(t, j + 1), LAMBDA k :
                    IF k <= Len(t) /\ t[j] = "[" /\ t[k] = "]"
                    THEN ParseOk(ArrNode(<<>>), k + 1)
                    ELSE IF k <= Len(t) /\ t[j] = "{" /\ t[k] = "}"
                    THEN ParseOk(ObjNode(<<>>), k + 1)
                    ELSE IF t[j] = "[" THEN ParseElements(t, j + 1, <<>>)
                    ELSE ParseMembers(t, j + 1, <<>>))
        ELSE ParseFail)

\* The elements of an array from position i, acc the elements read so far.
ParseElements(t, i, acc) ==
    Bind(ParseValue(t, i), LAMBDA r :
        IF ~r.ok THEN ParseFail
        ELSE Bind(<<SkipWs(t, r.pos), Append(acc, r.v)>>, LAMBDA n :
                IF n[1] > Len(t) THEN ParseFail
                ELSE IF t[n[1]] = "," THEN ParseElements(t, n[1] + 1, n[2])
                ELSE IF t[n[1]] = "]" THEN ParseOk(ArrNode(n[2]), n[1] + 1)
                ELSE ParseFail))

\* The value of one member and what follows it: k the parsed key, c the
\* position of the colon, acc the members read so far.
ParseMemberValue(t, k, c, acc) ==
    Bind(ParseValue(t, c + 1), LAMBDA r :
        IF ~r.ok THEN ParseFail
        ELSE Bind(<<SkipWs(t, r.pos), SetKey(acc, k.v.s, r.v)>>, LAMBDA n :
                IF n[1] > Len(t) THEN ParseFail
                ELSE IF t[n[1]] = "," THEN ParseMembers(t, n[1] + 1, n[2])
                ELSE IF t[n[1]] = "}" THEN ParseOk(ObjNode(n[2]), n[1] + 1)
                ELSE ParseFail))

\* The members of an object from position i, acc the members read so far.
ParseMembers(t, i, acc) ==
    Bind(SkipWs(t, i), LAMBDA j :
        IF j > Len(t) \/ t[j] # QUOTE THEN ParseFail
        ELSE Bind(ParseStringBody(t, j + 1, <<>>), LAMBDA k :
                IF ~k.ok THEN ParseFail
                ELSE Bind(SkipWs(t, k.pos), LAMBDA c :
                        IF c > Len(t) \/ t[c] # ":" THEN ParseFail
                        ELSE ParseMemberValue(t, k, c, acc))))

\* JSON.parse(t): [ok, v]; ok is FALSE where JSON.parse throws a SyntaxError
\* (no value, or anything but white space after it).
JSONParse(t) ==
    Bind(t, LAMBDA tv :
        Bind(ParseValue(tv, 1), LAMBDA r :
            IF r.ok /\ SkipWs(tv, r.pos) > Len(tv) THEN [ok |-> TRUE, v |-> r.v]
            ELSE [ok |-> FALSE, v |-> StrNode(<<>>)]))

\* The body of the string literal JSON.stringify writes for chars.
EscapeString(chars) ==
    Flatten([k \in 1..Len(chars) |->
                CASE chars[k] = QUOTE -> <<BSLASH, QUOTE>>
                  [] chars[k] = BSLASH -> <<BSLASH, BSLASH>>
                  [] chars[k] = NEWLINE -> <<BSLASH, "n">>
                  [] chars[k] = TAB -> <<BSLASH, "t">>
                  [] OTHER -> <<chars[k]>>])

QuoteString(chars) == <<QUOTE>> \o EscapeString(chars) \o <<QUOTE>>

\* JSON.stringify of one { path, content } record.
SerializeRecord(r) ==
    <<"{">> \o QuoteString(PATH) \o <<":">> \o QuoteString(GetKey(r, PATH).s)
            \o <<",">> \o QuoteString(CONTENT) \o <<":">>
            \o QuoteString(GetKey(r, CONTENT).s) \o <<"}">>

\* JSON.stringify of a list of { path, content } records.
Serialize(x) ==
    <<"[">> \o Flatten([k \in 1..Len(x) |->
                          IF k = 1 THEN SerializeRecord(x[k])
                          ELSE <<",">> \o SerializeRecord(x[k])]) \o <<"]">>

\* ------------------------------------------------------------------
\* extractJSON (src/scripts/fix_extract.py)
\* ------------------------------------------------------------------

\* What a block of statements does: returns a list, falls through to the next
\* statement, or throws.
Return(list) == [kind |-> "return", val |-> list]
FallThrough == [kind |-> "next", val |-> <<>>]
Throw == [kind |-> "throw", val |-> <<>>]

\* try { body } catch {}: an exception of the body is swallowed and control
\* falls through.
TryCatch(o) == Bind(o, LAMBDA ov : IF ov.kind = "throw" THEN FallThrough ELSE ov)

\* return JSON.parse(repaired t): returns whatever value the parse gives (an
\* array, since t starts with "["), or throws the parser's SyntaxError.
ReturnParsed(t) ==
    Bind(JSONParse(RepairTrailingCommas(t)),
         LAMBDA r : IF r.ok THEN Return(r.v.kids) ELSE Throw)

\* Strategy 1: direct parse of the trimmed text.
Strategy1(t) ==
    Bind(Trim(t), LAMBDA trimmed :
        TryCatch(IF StartsWithAt(trimmed, <<"[">>, 1)
                 THEN ReturnParsed(trimmed)
                 ELSE FallThrough))

FENCE == <<BTICK, BTICK, BTICK>>
FENCE_JSON == FENCE \o <<"j", "s", "o", "n">>

RECURSIVE FenceMatches(_, _, _)
\* The captures of the successive matches of /OPENER\s*([\s\S]*?)```/g in t,
\* from position `from` on: after an opener and the white space behind it, the
\* capture runs to the next fence, and the search goes on behind that fence.
FenceMatches(t, opener, from) ==
    Bind(IndexOf(t, opener, from), LAMBDA p :
        IF p = 0 THEN <<>>
        ELSE Bind(SkipWs(t, p + Len(opener)), LAMBDA a :
                Bind(IndexOf(t, FENCE, a), LAMBDA q :
                    IF q = 0 THEN <<>>
                    ELSE <<Slice(t, a, q)>> \o FenceMatches(t, opener, q + Len(FENCE)))))

\* The blocks strategy 2 looks at, in the order it looks at them: every match
\* of the ```json pattern, then every match of the plain ``` pattern.
CodeBlocks(t) == FenceMatches(t, FENCE_JSON, 1) \o FenceMatches(t, FENCE, 1)

\* The body of the loops of strategy 2 for one match: a block that starts with
\* "[" is parsed and returned; a SyntaxError is swallowed.
TryBlock(capture) ==
    Bind(Trim(capture), LAMBDA block :
        IF StartsWithAt(block, <<"[">>, 1)
        THEN TryCatch(ReturnParsed(block))
        ELSE FallThrough)

RECURSIVE TryBlocks(_)
\* The loops of strategy 2 over the matches left.
TryBlocks(blocks) ==
    IF blocks = <<>> THEN FallThrough
    ELSE Bind(TryBlock(Head(blocks)), LAMBDA o :
            IF o.kind = "next" THEN TryBlocks(Tail(blocks)) ELSE o)

\* Strategy 2: JSON in markdown code blocks.
Strategy2(t) == Bind(CodeBlocks(t), LAMBDA blocks : TryBlocks(blocks))

\* A depth-tracking loop that knows no escape: every quote opens or closes a
\* string, the escaped ones too.
BracketStepNoEscape(t, st, i) ==
    IF st.arrayEnd # 0 THEN st
    ELSE IF t[i] = QUOTE THEN [st EXCEPT !.inString = ~st.inString]
    ELSE IF st.inString THEN st
    ELSE IF t[i] = "[" THEN [st EXCEPT !.depth = st.depth + 1]
    ELSE IF t[i] = "]"
         THEN IF st.depth - 1 = 0 THEN [st EXCEPT !.depth = 0, !.arrayEnd = i]
              ELSE [st EXCEPT !.depth = st.depth - 1]
    ELSE st

\* One pass of the body of the depth-tracking loop of strategy 3, at position
\* i.  st holds the loop's variables; once arrayEnd is set the loop has left
\* (break) and nothing changes any more.
BracketStep(t, st, i) ==
    IF st.arrayEnd # 0 THEN st
    ELSE IF st.escape THEN [st EXCEPT !.escape = FALSE]
    ELSE IF t[i] = BSLASH THEN [st EXCEPT !.escape = TRUE]
    ELSE IF t[i] = QUOTE THEN [st EXCEPT !.inString = ~st.inString]
    ELSE IF st.inString THEN st
    ELSE IF t[i] = "[" THEN [st EXCEPT !.depth = st.depth + 1]
    ELSE IF t[i] = "]"
         THEN IF st.depth - 1 = 0 THEN [st EXCEPT !.depth = 0, !.arrayEnd = i]
              ELSE [st EXCEPT !.depth = st.depth - 1]
    ELSE st

RECURSIVE BracketLoop(_, _, _, _)
\* The passes of that loop for i = lo..hi in order, from the variables st (the
\* range is walked by halves so that the evaluation stays shallow).
BracketLoop(t, st, lo, hi) ==
    IF lo > hi THEN st
    ELSE IF lo = hi THEN BracketStep(t, st, lo)
    ELSE Bind(<<BracketLoop(t, st, lo, (lo + hi) \div 2), (lo + hi) \div 2 + 1, hi>>,
              LAMBDA h : IF h[1].arrayEnd # 0 THEN h[1]
                         ELSE BracketLoop(t, h[1], h[2], h[3]))

\* The depth-tracking loop of strategy 3 from arrayStart: the position of the
\* "]" that brings the depth back to 0, or 0 (for -1) when the loop ends first.
MatchBracket(t, arrayStart) ==
    Bind(<<[depth |-> 0, inString |-> FALSE, escape |-> FALSE, arrayEnd |-> 0],
           arrayStart,
           IF Len(t) < arrayStart + ScanLimit - 1
           THEN Len(t) ELSE arrayStart + ScanLimit - 1>>,
         LAMBDA a : BracketLoop(t, a[1], a[2], a[3]).arrayEnd)

\* parsed[0].path as a condition: the first element's path property, which is
\* undefined on anything but an object that has the key.
FirstHasPath(elems) ==
    /\ elems[1].t = "obj"
    /\ HasKey(elems[1], PATH)
    /\ Truthy(GetKey(elems[1], PATH))

\* Whether the candidate strategy 3 cuts out at arrayStart is kept:
\* Array.isArray(parsed) && parsed.length > 0 && parsed[0].path
KeepsCandidate(elems) == Len(elems) > 0 /\ FirstHasPath(elems)

\* The candidate of strategy 3 that starts at the "[" at position arrayStart:
\* [ok, elems], ok when the span closes, parses and is kept.
CandidateAt(t, arrayStart) ==
    IF ~StartsWithAt(Trim(Slice(t, arrayStart + 1, arrayStart + AfterBracketWindow)),
                     <<"{">>, 1)
    THEN [ok |-> FALSE, elems |-> <<>>]
    ELSE Bind(MatchBracket(t, arrayStart), LAMBDA arrayEnd :
            IF ~(arrayEnd > arrayStart) THEN [ok |-> FALSE, elems |-> <<>>]
            ELSE Bind(JSONParse(RepairTrailingCommas(Slice(t, arrayStart, arrayEnd + 1))),
                      LAMBDA parsed :
                        IF parsed.ok /\ parsed.v.t = "arr" /\ KeepsCandidate(parsed.v.kids)
                        THEN [ok |-> TRUE, elems |-> parsed.v.kids]
                        ELSE [ok |-> FALSE, elems |-> <<>>]))

\* A slip of the comparison: >= lets a later candidate of the same length win.
KeepIfNotShorter(best, elems) == IF Len(elems) >= Len(best) THEN elems ELSE best

\* if (parsed.length > bestResult.length) bestResult = parsed
KeepIfLonger(best, elems) == IF Len(elems) > Len(best) THEN elems ELSE best

RECURSIVE BracketScan(_, _, _)
\* The while loop of strategy 3 from searchPos on: bestResult at its end.
BracketScan(t, searchPos, best) ==
    Bind(IndexOf(t, <<"[">>, searchPos), LAMBDA arrayStart :
        IF arrayStart = 0 THEN best
        ELSE Bind(CandidateAt(t, arrayStart), LAMBDA c :
                Bind(IF c.ok THEN KeepIfLonger(best, c.elems) ELSE best,
                     LAMBDA b : BracketScan(t, arrayStart + 1, b))))

\* Strategy 3: the largest [...] block containing file objects.
Strategy3(t) ==
    Bind(BracketScan(t, 1, <<>>), LAMBDA bestResult :
        IF Len(bestResult) > 0 THEN Return(bestResult) ELSE FallThrough)

\* Where [^"]+ stops: the first position >= i that holds a quote
\* (Len(t) + 1 if none).
SkipNonQuote(t, i) ==
    Bind(IndexOf(t, <<QUOTE>>, i), LAMBDA q : IF q = 0 THEN Len(t) + 1 ELSE q)

\* A literal of a regular expression at the first non-blank position >= i
\* (\s* then the literal): the position behind it, or 0 when it is not there
\* (i = 0: the pattern has failed before).
AfterLit(t, lit, i) ==
    Bind(i, LAMBDA iv :
        IF iv = 0 THEN 0
        ELSE Bind(SkipWs(t, iv), LAMBDA j :
                IF StartsWithAt(t, lit, j) THEN j + Len(lit) ELSE 0))

\* The rest of filePattern behind the path capture pathFrom..pathTo-1:
\* "\s*,\s*"content"\s*:\s*"
MatchAfterPath(t, pathFrom, pathTo) ==
    IF ~(pathTo > pathFrom /\ pathTo <= Len(t)) THEN [ok |-> FALSE, path |-> <<>>, end |-> 0]
    ELSE Bind(AfterLit(t, <<QUOTE>>,
                  AfterLit(t, <<":">>,
                      AfterLit(t, QuoteString(CONTENT),
                          AfterLit(t, <<",">>, pathTo + 1)))),
              LAMBDA end :
                IF end # 0
                THEN [ok |-> TRUE, path |-> Slice(t, pathFrom, pathTo), end |-> end]
                ELSE [ok |-> FALSE, path |-> <<>>, end |-> 0])

\* filePattern, /\{\s*"path"\s*:\s*"([^"]+)"\s*,\s*"content"\s*:\s*"/, matched
\* at position p: [ok, path, end], path the capture (the raw characters
\* between the quotes) and end the position behind the match.
MatchFilePattern(t, p) ==
    IF ~StartsWithAt(t, <<"{">>, p) THEN [ok |-> FALSE, path |-> <<>>, end |-> 0]
    ELSE Bind(AfterLit(t, <<QUOTE>>,
                  AfterLit(t, <<":">>, AfterLit(t, QuoteString(PATH), p + 1))),
              LAMBDA pathFrom :
                IF pathFrom = 0 THEN [ok |-> FALSE, path |-> <<>>, end |-> 0]
                ELSE Bind(SkipNonQuote(t, pathFrom),
                          LAMBDA pathTo : MatchAfterPath(t, pathFrom, pathTo)))

\* One pass of the body of the closing-quote loop of strategy 4, at position i
\* (inStr stays true throughout).  Once contentEnd is set the loop has left.
ContentStep(t, st, i) ==
    IF st.contentEnd # 0 THEN st
    ELSE IF st.esc THEN [st EXCEPT !.esc = FALSE]
    ELSE IF t[i] = BSLASH THEN [st EXCEPT !.esc = TRUE]
    ELSE IF /\ t[i] = QUOTE
            /\ StartsWithAt(Trim(Slice(t, i + 1, i + RestWindow)), <<"}">>, 1)
         THEN [st EXCEPT !.contentEnd = i]
    ELSE st

RECURSIVE ContentLoop(_, _, _, _)
\* The passes of that loop for i = lo..hi in order, from the variables st.
ContentLoop(t, st, lo, hi) ==
    IF lo > hi THEN st
    ELSE IF lo = hi THEN ContentStep(t, st, lo)
    ELSE Bind(<<ContentLoop(t, st, lo, (lo + hi) \div 2), (lo + hi) \div 2 + 1, hi>>,
              LAMBDA h : IF h[1].contentEnd # 0 THEN h[1]
                         ELSE ContentLoop(t, h[1], h[2], h[3]))

\* The closing-quote search of strategy 4 from contentStart: the position of
\* the first unescaped quote whose next characters, trimmed, start with "}",
\* or 0 (for -1).
FindContentEnd(t, contentStart) ==
    Bind(<<[esc |-> FALSE, contentEnd |-> 0],
           contentStart,
           IF Len(t) < contentStart + SalvageLimit - 1
           THEN Len(t) ELSE contentStart + SalvageLimit - 1>>,
         LAMBDA a : ContentLoop(t, a[1], a[2], a[3]).contentEnd)

\* A salvage that takes the characters up to contentEnd for the content as
\* they are, without parsing them as a string literal.
SalvageRaw(t, m) ==
    Bind(FindContentEnd(t, m.end), LAMBDA contentEnd :
        IF ~(contentEnd > m.end) THEN <<>>
        ELSE <<FileObj(m.path, Slice(t, m.end, contentEnd))>>)

\* The files one match of filePattern adds: the record with the unescaped
\* content, or nothing when the content has no end, is empty or does not
\* parse as a string literal.
SalvageOne(t, m) ==
    Bind(FindContentEnd(t, m.end), LAMBDA contentEnd :
        IF ~(contentEnd > m.end) THEN <<>>
        ELSE Bind(JSONParse(<<QUOTE>> \o Slice(t, m.end, contentEnd) \o <<QUOTE>>),
                  LAMBDA unescaped :
                    IF unescaped.ok THEN <<FileObj(m.path, unescaped.v.s)>> ELSE <<>>))

RECURSIVE SalvageFrom(_, _)
\* The exec loop of strategy 4 with filePattern.lastIndex = from - 1: the
\* leftmost match from there on, its file, and the search goes on behind the
\* match (not behind the content).
SalvageFrom(t, from) ==
    Bind({p \in from..Len(t) : MatchFilePattern(t, p).ok}, LAMBDA hits :
        IF hits = {} THEN <<>>
        ELSE Bind(MatchFilePattern(t, CHOOSE p \in hits : \A q \in hits : p <= q),
                  LAMBDA m : SalvageOne(t, m) \o SalvageFrom(t, m.end)))

\* Strategy 4: individual file objects.
Strategy4(t) == Return(SalvageFrom(t, 1))

\* What strategy k does on text t.
Strategy(k, t) ==
    CASE k = 1 -> Strategy1(t)
      [] k = 2 -> Strategy2(t)
      [] k = 3 -> Strategy3(t)
      [] OTHER -> Strategy4(t)

RECURSIVE ExtractFrom(_, _)
ExtractFrom(k, t) ==
    Bind(Strategy(k, t), LAMBDA o :
        IF o.kind = "next" /\ k < 4 THEN ExtractFrom(k + 1, t) ELSE o)

\* extractJSON(text) as a whole.
ExtractJSON(t) == Bind(t, LAMBDA tv : ExtractFrom(1, tv))

\* ------------------------------------------------------------------
\* The texts extractJSON is run on
\* ------------------------------------------------------------------

\* The longest list of records that is serialized, and the most blocks a
\* composed text is made of.
MaxRecords == 2
MaxBlocks == 2

SeqsUpTo(S, n) == UNION {[1..k -> S] : k \in 0..n}

\* Paths and contents of the serialized records: plain ones, a path that
\* climbs out of the project, contents that hold the characters the repair
\* and the scans look for.
Paths == {<<"a">>, <<".", ".", "/", "a">>}
Contents == {<<"x">>, <<",", "}">>, <<QUOTE, "]">>, <<BSLASH, NEWLINE>>}
Records == {FileObj(p, c) : p \in Paths, c \in Contents}
RecordLists == SeqsUpTo(Records, MaxRecords)

RecA == FileObj(<<"a">>, <<"x">>)
RecD == FileObj(<<"d">>, <<"[", "y">>)

\* t without its last character: an output cut off before the closing "]".
Truncated(t) == SubSeq(t, 1, Len(t) - 1)

\* The arrays a model's answer is composed of: one record, another one, two
\* records, no record, an array of something else, a truncated array, and an
\* array with trailing commas.
ArrayA == Serialize(<<RecA>>)
ArrayD == Serialize(<<RecD>>)
ArrayAD == Serialize(<<RecA, RecD>>)
EmptyArray == <<"[", "]">>
StringArray == <<"[", QUOTE, "x", QUOTE, "]">>
CutArray == Truncated(ArrayA)
CommaArray == <<"[">> \o Truncated(SerializeRecord(RecA)) \o <<",", "}", ",", "]">>

Bodies == {ArrayA, ArrayD, ArrayAD, EmptyArray, StringArray, CutArray, CommaArray}

\* How an array stands in the answer: bare, behind a word of commentary, in a
\* plain fence, or in a json fence.
Bare(b) == b \o <<" ">>
Commented(b) == <<"x", " ">> \o b \o <<" ">>
Fenced(b) == FENCE \o b \o FENCE \o <<" ">>
FencedJson(b) == FENCE_JSON \o <<NEWLINE>> \o b \o <<NEWLINE>> \o FENCE \o <<" ">>

\* The blocks an answer is composed of: every array bare, and the arrays each
\* other way of standing tells apart.
Blocks ==
    {Bare(b) : b \in Bodies}
        \cup {Commented(b) : b \in {ArrayA, ArrayD, ArrayAD, StringArray, CutArray}}
        \cup {Fenced(b) : b \in {ArrayA, ArrayAD, EmptyArray, CommaArray}}
        \cup {FencedJson(b) : b \in {ArrayD, StringArray, CommaArray}}

ComposedTexts == {Flatten(bs) : bs \in SeqsUpTo(Blocks, MaxBlocks)}

\* ------------------------------------------------------------------
\* The streaming parser of kimiComplete (src/scripts/fix_streaming.py)
\* ------------------------------------------------------------------

\* undefined: what reading a missing property gives.
Undefined == [t |-> "undef", s |-> <<>>, kids |-> <<>>]

CHOICES == <<"c", "h", "o", "i", "c", "e", "s">>
DELTA == <<"d", "e", "l", "t", "a">>
REASONING == <<"r", "e", "a", "s", "o", "n", "i", "n", "g">>
REASONING_CONTENT == REASONING \o <<"_">> \o CONTENT
ZERO == <<"0">>
DATA_PREFIX == <<"d", "a", "t", "a", ":", " ">>
DONE_SENTINEL == <<"[", "D", "O", "N", "E", "]">>
OBJECT_STRING ==
    <<"[", "o", "b", "j", "e", "c", "t", " ", "O", "b", "j", "e", "c", "t", "]">>

\* v?.[key]: a member of an object, element 0 of an array, character 0 of a
\* string; undefined for anything else.
Prop(v, key) ==
    CASE v.t = "obj" -> IF HasKey(v, key) THEN GetKey(v, key) ELSE Undefined
      [] v.t = "arr" -> IF key = ZERO /\ Len(v.kids) > 0 THEN v.kids[1] ELSE Undefined
      [] v.t = "str" -> IF key = ZERO /\ Len(v.s) > 0 THEN StrNode(<<v.s[1]>>) ELSE Undefined
      [] OTHER -> Undefined

RECURSIVE JsString(_)
\* String(v), which += applies to what it appends: a string is itself, an
\* array its elements joined by commas, an object "[object Object]".
JsString(v) ==
    CASE v.t = "str" -> v.s
      [] v.t = "arr" ->
            Flatten([k \in 1..Len(v.kids) |->
                        IF k = 1 THEN JsString(v.kids[k])
                        ELSE <<",">> \o JsString(v.kids[k])])
      [] v.t = "obj" -> OBJECT_STRING
      [] OTHER -> <<>>

\* if (delta?.content) fullContent += delta.content, and the two statements
\* for the reasoning, then chunkCount++.
ApplyDelta(acc, delta) ==
    Bind(<<Prop(delta, CONTENT), Prop(delta, REASONING_CONTENT), Prop(delta, REASONING)>>,
         LAMBDA d :
            [fullContent |->
                IF Truthy(d[1]) THEN acc.fullContent \o JsString(d[1])
                ELSE acc.fullContent,
             reasoningContent |->
                (IF Truthy(d[2]) THEN acc.reasoningContent \o JsString(d[2])
                 ELSE acc.reasoningContent)
                \o (IF Truthy(d[3]) /\ ~Truthy(d[2]) THEN JsString(d[3]) ELSE <<>>),
             chunkCount |-> acc.chunkCount + 1])

\* The body of the for loop over the lines of a chunk.
ProcessLine(acc, line) ==
    IF ~StartsWithAt(line, DATA_PREFIX, 1) THEN acc
    ELSE Bind(Trim(Slice(line, Len(DATA_PREFIX) + 1, Len(line) + 1)), LAMBDA payload :
            IF payload = DONE_SENTINEL THEN acc
            ELSE Bind(JSONParse(payload), LAMBDA parsed :
                    IF ~parsed.ok THEN acc
                    ELSE ApplyDelta(acc, Prop(Prop(Prop(parsed.v, CHOICES), ZERO), DELTA))))

RECURSIVE ProcessLines(_, _, _)
\* The for loop from line k of lines on.
ProcessLines(acc, lines, k) ==
    IF k > Len(lines) THEN acc
    ELSE Bind(ProcessLine(acc, lines[k]), LAMBDA next : ProcessLines(next, lines, k + 1))

\* for (const line of text.split("\n")) { ... } on one decoded chunk.
ProcessChunk(acc, chunk) ==
    Bind(Split(chunk, NEWLINE), LAMBDA lines : ProcessLines(acc, lines, 1))

\* A finalContent that prefers the reasoning to the content.
ReasoningFirst(acc) ==
    IF acc.reasoningContent # <<>> THEN acc.reasoningContent ELSE acc.fullContent

\* const finalContent = fullContent || reasoningContent
FinalContent(acc) ==
    IF acc.fullContent # <<>> THEN acc.fullContent ELSE acc.reasoningContent

\* ------------------------------------------------------------------
\* The responses kimiComplete reads
\* ------------------------------------------------------------------

\* The most lines a response body has, the most attempts kimiComplete is
\* called with, and how many characters into a line the transport may cut it.
MaxLines == 2
MaxRetries == 3
CutOffset == 7

\* "key":"chars"
Field(key, chars) == QuoteString(key) \o <<":">> \o QuoteString(chars)

\* The event line data: {"choices":[{"delta":{fields}}]}
DeltaEvent(fields) ==
    DATA_PREFIX \o <<"{">> \o QuoteString(CHOICES) \o <<":", "[", "{">>
        \o QuoteString(DELTA) \o <<":", "{">> \o fields \o <<"}", "}", "]", "}">>

ContentF == DeltaEvent(Field(CONTENT, <<"f">>))
ContentB == DeltaEvent(Field(CONTENT, <<"b">>))
ReasoningT == DeltaEvent(Field(REASONING_CONTENT, <<"t">>))
ReasoningU == DeltaEvent(Field(REASONING, <<"u">>))
Malformed == Truncated(ContentF)
DoneLine == DATA_PREFIX \o DONE_SENTINEL

\* The lines a server sends: deltas of content, of reasoning_content and of
\* reasoning, a delta cut short, and the end marker.
EventLines == {ContentF, ContentB, ReasoningT, ReasoningU, Malformed, DoneLine}

\* A response body: its lines, each ended by a line feed.
BodyOf(lines) == Flatten([k \in 1..Len(lines) |-> lines[k] \o <<NEWLINE>>])
ResponseBodies == {BodyOf(ls) : ls \in SeqsUpTo(EventLines, MaxLines)}

\* Where the transport may cut a body in two: after a line feed, or CutOffset
\* characters into a line.
CutPoints(b) ==
    {p \in 1..(Len(b) - 1) :
        \/ b[p] = NEWLINE
        \/ /\ p > CutOffset => b[p - CutOffset] = NEWLINE
           /\ p >= CutOffset
           /\ \A k \in (p - CutOffset + 1)..p : b[k] # NEWLINE}

\* The chunks a body arrives in: none for an empty body, else the body whole
\* or cut in two.
Chunkings(b) ==
    IF b = <<>> THEN {<<>>}
    ELSE {<<b>>} \cup {<<Slice(b, 1, p + 1), Slice(b, p + 1, Len(b) + 1)>> : p \in CutPoints(b)}

Responses == UNION {Chunkings(b) : b \in ResponseBodies}

\* ------------------------------------------------------------------
\* State
\* ------------------------------------------------------------------

VARIABLES
    text,     \* the argument of extractJSON
    given,    \* the records text was serialized from (<<>> for a composed text)
    origin,   \* "serialized" or "composed"
    stage,    \* the strategy extractJSON is about to run (1..4), 5 once it is over
    winner,   \* the strategy that returned (0 while none has)
    result,   \* the list extractJSON returned
    raised,   \* whether extractJSON threw instead of returning
    retries,          \* the argument of kimiComplete
    attempt,          \* the loop variable of kimiComplete
    pc,               \* where kimiComplete stands
    armed,            \* the attempts whose abortTimer is pending
    inFlight,         \* the requests issued and not yet over
    requests,         \* the requests issued so far
    pending,          \* the chunks of the response still to arrive
    received,         \* the chunks of the response read so far
    fullContent,      \* the accumulators of the attempt
    reasoningContent,
    chunkCount,
    lastError,        \* the error the catch block caught last, and in which attempt
    thrown,           \* the error kimiComplete threw ("" while none)
    returned,         \* the text kimiComplete returned
    sleeps,           \* the durations slept so far, in milliseconds
    disk,             \* the files of the project: [path, content], as listed
    impl,             \* the implementation of reconcile that is run
    runs,             \* the runs of it so far
    writes,           \* the paths written so far, in order
    added,            \* the packages each run added to the manifest
    commands,         \* the shell commands run so far
    step,             \* where verifyBuildLocally stands
    output,           \* what the first build printed, line by line
    errStr,           \* String(error) of the build that failed first
    reported,         \* missingModules as the catch block filled it
    outcomes,         \* how each of the commands ended, in order
    verdict,          \* what verifyBuildLocally returned ("" while nothing)
    ideaType,         \* idea.type of the project buildMVP works on ("" outside it)
    phase,            \* where buildMVP stands between and within its stages
    stagesDone,       \* the stages of the wiring that are over
    trail,            \* the stages begun so far, in order
    plan,             \* the writes of the stage that runs: [path, content, added]
    cursor,           \* the write of plan that is next or in progress
    fd,               \* the file that is open for writing, and how far it is written
    atStart,          \* the files as they were when the stage began
    escaped           \* whether an exception has left a stage

extractVars == <<text, given, origin, stage, winner, result, raised>>
completeVars ==
    <<retries, attempt, pc, armed, inFlight, requests, pending, received,
      fullContent, reasoningContent, chunkCount, lastError, thrown, returned, sleeps>>
verifyVars == <<step, output, errStr, reported, outcomes, verdict>>
pipeVars == <<ideaType, phase, stagesDone, trail, plan, cursor, fd, atStart, escaped>>
projectVars == <<disk, impl, runs, writes, added, commands, verifyVars, pipeVars>>
vars == <<extractVars, completeVars, projectVars>>

NoError == [n |-> 0, e |-> ""]

\* verifyBuildLocally not called.
VerifyIdle ==
    /\ step = "idle"
    /\ output = <<>>
    /\ errStr = <<>>
    /\ reported = <<>>
    /\ outcomes = <<>>
    /\ verdict = ""

\* No file is open.
NoFd == [path |-> <<>>, written |-> 0]

PipelineIdle ==
    /\ ideaType = ""
    /\ phase = "idle"
    /\ stagesDone = 0
    /\ trail = <<>>
    /\ plan = <<>>
    /\ cursor = 1
    /\ fd = NoFd
    /\ atStart = <<>>
    /\ escaped = FALSE

\* No project on disk and nothing run on it.
ProjectIdle ==
    /\ disk = <<>>
    /\ impl = "none"
    /\ runs = 0
    /\ writes = <<>>
    /\ added = <<>>
    /\ commands = <<>>
    /\ VerifyIdle
    /\ PipelineIdle

\* kimiComplete not called.
CompleteIdle ==
    /\ retries = 0
    /\ attempt = 0
    /\ pc = "idle"
    /\ armed = {}
    /\ inFlight = 0
    /\ requests = 0
    /\ pending = <<>>
    /\ received = <<>>
    /\ fullContent = <<>>
    /\ reasoningContent = <<>>
    /\ chunkCount = 0
    /\ lastError = NoError
    /\ thrown = ""
    /\ returned = <<>>
    /\ sleeps = <<>>

\* extractJSON not called.
ExtractIdle ==
    /\ text = <<>>
    /\ given = <<>>
    /\ origin = "none"
    /\ stage = 0
    /\ winner = 0
    /\ result = <<>>
    /\ raised = FALSE

\* ------------------------------------------------------------------
\* extractJSON, one strategy a step
\* ------------------------------------------------------------------

ExtractInit ==
    /\ \/ /\ given \in RecordLists
          /\ text = Serialize(given)
          /\ origin = "serialized"
       \/ /\ text \in ComposedTexts
          /\ given = <<>>
          /\ origin = "composed"
    /\ stage = 1
    /\ winner = 0
    /\ result = <<>>
    /\ raised = FALSE
    /\ CompleteIdle
    /\ ProjectIdle

\* What strategy k having done o leaves behind: it returned, threw, or left
\* the text to the next strategy.
Settle(k, o) ==
    /\ stage' = IF o.kind = "next" THEN k + 1 ELSE 5
    /\ winner' = IF o.kind = "return" THEN k ELSE winner
    /\ result' = IF o.kind = "return" THEN o.val ELSE result
    /\ raised' = (o.kind = "throw")
    /\ UNCHANGED <<text, given, origin, completeVars, projectVars>>

DirectParse ==
    /\ stage = 1
    /\ \E o \in {Strategy1(text)} : Settle(1, o)

FencedBlock ==
    /\ stage = 2
    /\ \E o \in {Strategy2(text)} : Settle(2, o)

BracketDepthScan ==
    /\ stage = 3
    /\ \E o \in {Strategy3(text)} : Settle(3, o)

PerObjectSalvage ==
    /\ stage = 4
    /\ \E o \in {Strategy4(text)} : Settle(4, o)

ExtractNext == DirectParse \/ FencedBlock \/ BracketDepthScan \/ PerObjectSalvage

ExtractSpec == ExtractInit /\ [][ExtractNext]_vars

Done == stage = 5

\* ------------------------------------------------------------------
\* kimiComplete (src/fix_daemon.py), one await a step
\* ------------------------------------------------------------------

\* controller.abort() is set to run after this many milliseconds.
AbortAfterMs == 900000
\* The unit of the sleep between two attempts, in milliseconds.
BackoffMs == 10000

CompleteInit ==
    /\ retries \in 0..MaxRetries
    /\ attempt = 1
    /\ pc = "loop"
    /\ armed = {}
    /\ inFlight = 0
    /\ requests = 0
    /\ pending = <<>>
    /\ received = <<>>
    /\ fullContent = <<>>
    /\ reasoningContent = <<>>
    /\ chunkCount = 0
    /\ lastError = NoError
    /\ thrown = ""
    /\ returned = <<>>
    /\ sleeps = <<>>
    /\ ExtractIdle
    /\ ProjectIdle

\* A sleep of the same length after every attempt.
FixedBackoff(k) == BackoffMs

\* sleep(10000 * attempt)
Backoff(k) == BackoffMs * k

\* A catch block that sleeps and goes on even after the last attempt.
CatchRetryingPastLast(error) ==
    /\ lastError' = [n |-> attempt, e |-> error]
    /\ inFlight' = inFlight - 1
    /\ pending' = <<>>
    /\ received' = <<>>
    /\ pc' = "sleeping"
    /\ sleeps' = Append(sleeps, Backoff(attempt))
    /\ thrown' = thrown

\* The catch block: the request is over; sleep if an attempt is left, else
\* throw the error caught.
Catch(error) ==
    /\ lastError' = [n |-> attempt, e |-> error]
    /\ inFlight' = inFlight - 1
    /\ pending' = <<>>
    /\ received' = <<>>
    /\ IF attempt < retries
       THEN /\ pc' = "sleeping"
            /\ sleeps' = Append(sleeps, Backoff(attempt))
            /\ thrown' = thrown
       ELSE /\ pc' = "failed"
            /\ thrown' = error
            /\ sleeps' = sleeps

\* The loop condition holds: the timer is set and the request sent.
StartAttempt ==
    /\ pc = "loop"
    /\ attempt <= retries
    /\ armed' = armed \cup {attempt}
    /\ requests' = requests + 1
    /\ inFlight' = inFlight + 1
    /\ pc' = "fetching"
    /\ UNCHANGED <<retries, attempt, pending, received, fullContent, reasoningContent,
                   chunkCount, lastError, thrown, returned, sleeps, extractVars, projectVars>>

\* The loop condition fails: throw new Error("All retries failed").
AllRetriesFailed ==
    /\ pc = "loop"
    /\ attempt > retries
    /\ pc' = "failed"
    /\ thrown' = "All retries failed"
    /\ UNCHANGED <<retries, attempt, armed, inFlight, requests, pending, received,
                   fullContent, reasoningContent, chunkCount, lastError, returned,
                   sleeps, extractVars, projectVars>>

\* fetch rejects (no connection); the timer stays set.
FetchRejects ==
    /\ pc = "fetching"
    /\ Catch("network")
    /\ UNCHANGED <<retries, attempt, armed, requests, fullContent, reasoningContent,
                   chunkCount, returned, extractVars, projectVars>>

\* The timer of the attempt fires while fetch is awaited: the request is
\* aborted and fetch rejects.
AbortTimerFires ==
    /\ pc = "fetching"
    /\ attempt \in armed
    /\ armed' = armed \ {attempt}
    /\ Catch("AbortError")
    /\ UNCHANGED <<retries, attempt, requests, fullContent, reasoningContent,
                   chunkCount, returned, extractVars, projectVars>>

\* A timer fires whose fetch is over: abort() has nothing to abort.
StaleTimerFires ==
    /\ \E k \in armed :
          /\ k # attempt \/ pc # "fetching"
          /\ armed' = armed \ {k}
    /\ UNCHANGED <<retries, attempt, pc, inFlight, requests, pending, received,
                   fullContent, reasoningContent, chunkCount, lastError, thrown,
                   returned, sleeps, extractVars, projectVars>>

\* fetch resolves with a status that is not ok: clearTimeout, then throw.
ResponseNotOk ==
    /\ pc = "fetching"
    /\ armed' = armed \ {attempt}
    /\ Catch("API status")
    /\ UNCHANGED <<retries, attempt, requests, fullContent, reasoningContent,
                   chunkCount, returned, extractVars, projectVars>>

\* Accumulators that are declared once for all attempts: an attempt starts
\* with what the one before has left.
KeptDeltas ==
    [fullContent |-> fullContent, reasoningContent |-> reasoningContent,
     chunkCount |-> chunkCount]

\* The accumulators of one attempt as their declarations leave them.
NoDeltas == [fullContent |-> <<>>, reasoningContent |-> <<>>, chunkCount |-> 0]

\* fetch resolves with an ok status: clearTimeout, the reader is taken and the
\* accumulators are declared.
ResponseOk ==
    /\ pc = "fetching"
    /\ armed' = armed \ {attempt}
    /\ pending' \in Responses
    /\ received' = <<>>
    /\ fullContent' = NoDeltas.fullContent
    /\ reasoningContent' = NoDeltas.reasoningContent
    /\ chunkCount' = NoDeltas.chunkCount
    /\ pc' = "reading"
    /\ UNCHANGED <<retries, attempt, inFlight, requests, lastError, thrown, returned,
                   sleeps, extractVars, projectVars>>

\* reader.read() gives a chunk: its lines are gone through.
ReadChunk ==
    /\ pc = "reading"
    /\ pending # <<>>
    /\ \E acc \in {ProcessChunk([fullContent |-> fullContent,
                                 reasoningContent |-> reasoningContent,
                                 chunkCount |-> chunkCount], Head(pending))} :
          /\ fullContent' = acc.fullContent
          /\ reasoningContent' = acc.reasoningContent
          /\ chunkCount' = acc.chunkCount
    /\ received' = Append(received, Head(pending))
    /\ pending' = Tail(pending)
    /\ UNCHANGED <<retries, attempt, pc, armed, inFlight, requests, lastError, thrown,
                   returned, sleeps, extractVars, projectVars>>

\* reader.read() rejects: the connection broke while the body was read.
ReadRejects ==
    /\ pc = "reading"
    /\ Catch("network")
    /\ UNCHANGED <<retries, attempt, armed, requests, fullContent, reasoningContent,
                   chunkCount, returned, extractVars, projectVars>>

\* reader.read() gives done: break.
StreamEnds ==
    /\ pc = "reading"
    /\ pending = <<>>
    /\ pc' = "finalizing"
    /\ UNCHANGED <<retries, attempt, armed, inFlight, requests, pending, received,
                   fullContent, reasoningContent, chunkCount, lastError, thrown,
                   returned, sleeps, extractVars, projectVars>>

\* What the accumulators hold at this point.
Accumulated ==
    [fullContent |-> fullContent, reasoningContent |-> reasoningContent,
     chunkCount |-> chunkCount]

\* if (!finalContent) throw new Error("Empty response")
EmptyResponse ==
    /\ pc = "finalizing"
    /\ FinalContent(Accumulated) = <<>>
    /\ Catch("Empty response")
    /\ UNCHANGED <<retries, attempt, armed, requests, fullContent, reasoningContent,
                   chunkCount, returned, extractVars, projectVars>>

\* return finalContent
ReturnFinal ==
    /\ pc = "finalizing"
    /\ FinalContent(Accumulated) # <<>>
    /\ returned' = FinalContent(Accumulated)
    /\ inFlight' = inFlight - 1
    /\ pc' = "returned"
    /\ UNCHANGED <<retries, attempt, armed, requests, pending, received, fullContent,
                   reasoningContent, chunkCount, lastError, thrown, sleeps,
                   extractVars, projectVars>>

\* The sleep is over: attempt++.
WakeUp ==
    /\ pc = "sleeping"
    /\ attempt' = attempt + 1
    /\ pc' = "loop"
    /\ UNCHANGED <<retries, armed, inFlight, requests, pending, received, fullContent,
                   reasoningContent, chunkCount, lastError, thrown, returned, sleeps,
                   extractVars, projectVars>>

CompleteNext ==
    \/ StartAttempt
    \/ AllRetriesFailed
    \/ FetchRejects
    \/ AbortTimerFires
    \/ StaleTimerFires
    \/ ResponseNotOk
    \/ ResponseOk
    \/ ReadChunk
    \/ ReadRejects
    \/ StreamEnds
    \/ EmptyResponse
    \/ ReturnFinal
    \/ WakeUp

CompleteSpec == CompleteInit /\ [][CompleteNext]_vars

\* What the event loop guarantees: a statement that can run does run, a
\* timer that is set fires, a sleep ends.  Nothing makes the server answer,
\* send the next chunk or close the stream.
CompleteFairSpec ==
    /\ CompleteSpec
    /\ WF_vars(StartAttempt)
    /\ WF_vars(AllRetriesFailed)
    /\ WF_vars(AbortTimerFires)
    /\ WF_vars(StaleTimerFires)
    /\ WF_vars(EmptyResponse)
    /\ WF_vars(ReturnFinal)
    /\ WF_vars(WakeUp)

\* ------------------------------------------------------------------
\* Claims about extractJSON
\* ------------------------------------------------------------------

\* A FileRecord of the data model: an object with a string content and a path
\* that is a non-empty string, not absolute, with no ".." segment.
IsFileRecord(v) ==
    /\ v.t = "obj"
    /\ HasKey(v, PATH) /\ GetKey(v, PATH).t = "str"
    /\ HasKey(v, CONTENT) /\ GetKey(v, CONTENT).t = "str"
    /\ \E path \in {GetKey(v, PATH).s} :
          /\ path # <<>>
          /\ path[1] # "/"
          /\ \A k \in 1..Len(Split(path, "/")) : Split(path, "/")[k] # <<".", ".">>

\* An object that has a path and a content, whatever they are.
IsFileObject(v) == v.t = "obj" /\ HasKey(v, PATH) /\ HasKey(v, CONTENT)

\* C1: round trip.  When the text is JSON.stringify of a list of
\* { path, content } records, extractJSON returns exactly that list.
C1_RoundTrip == (Done /\ origin = "serialized") => (~raised /\ result = given)

\* Whether strategy k, run on t, returns a list that holds a file object.
RecoversRecord(k, t) ==
    \E o \in {Strategy(k, t)} :
        o.kind = "return" /\ \E i \in 1..Len(o.val) : IsFileObject(o.val[i])

\* C2: extractJSON never throws, and when none of the four strategies recovers
\* a record the list it returns is empty.
C2_NeverRaisesEmptyOnFailure ==
    Done => /\ ~raised
            /\ (\A k \in 1..4 : ~RecoversRecord(k, text)) => result = <<>>

\* The candidates strategy 3 keeps, each with the position of its "[".
Candidates(t) ==
    {[at |-> c[1], elems |-> c[2].elems] :
        c \in {c \in {<<p, CandidateAt(t, p)>> : p \in {p \in 1..Len(t) : t[p] = "["}} :
                    c[2].ok}}

\* Among the candidates cs, the one with the most records, and among those
\* of that length the one that occurs first.
FirstLongest(cs) ==
    (CHOOSE c \in cs : \A d \in cs :
        \/ Len(d.elems) < Len(c.elems)
        \/ Len(d.elems) = Len(c.elems) /\ c.at <= d.at).elems

\* C3 as stated: when several candidate arrays are present in the text,
\* extractJSON returns the one with the most records, the first of them on a
\* tie.
C3_LongestCandidateWins ==
    \A cs \in {IF Done THEN Candidates(text) ELSE {}} :
        Cardinality(cs) >= 2 => result = FirstLongest(cs)

\* C3 as amended: when neither the direct parse nor a fenced block returned
\* and the text holds a candidate array, extractJSON returns the candidate
\* with the most records, the first of them on a tie.
C3_ScanReturnsFirstLongest ==
    \A cs \in {IF stage = 4 \/ (Done /\ winner \in {3, 4})
               THEN Candidates(text) ELSE {}} :
        cs # {} => winner = 3 /\ result = FirstLongest(cs)

\* The bracket-depth scan has chosen between two different candidates of the
\* same length.
C3_TieWitness ==
    /\ Done
    /\ winner = 3
    /\ \E cs \in {Candidates(text)} : \E c, d \in cs :
          /\ c.at < d.at
          /\ Len(c.elems) = Len(d.elems)
          /\ c.elems # d.elems
          /\ result = c.elems

\* A non-empty array of file objects.
IsFileArray(list) == list # <<>> /\ \A i \in 1..Len(list) : IsFileObject(list[i])

\* What the first strategy that yields a non-empty array of file objects
\* yields; the empty list when none does.
FirstValidYield(t) ==
    Bind({k \in 1..4 : \E o \in {Strategy(k, t)} : o.kind = "return" /\ IsFileArray(o.val)},
         LAMBDA ks : IF ks = {} THEN <<>>
                     ELSE Strategy(CHOOSE k \in ks : \A j \in ks : k <= j, t).val)

\* C4: the result is that of the first strategy, in the order 1 to 4, that
\* yields a non-empty array of file objects; a strategy whose parse gives an
\* empty array or something else does not win.
C4_FirstValidStrategyWins == Done => result = FirstValidYield(text)

\* Whether position i of t lies outside every string literal: the quotes
\* before it that no backslash escapes are even in number.
Escaped(t, i) ==
    \E run \in {i - 1 - Bind({k \in 1..(i - 1) : t[k] # BSLASH},
                              LAMBDA ks : IF ks = {} THEN 0
                                          ELSE CHOOSE k \in ks : \A j \in ks : k >= j)} :
        run % 2 = 1
OutsideStrings(t, i) ==
    Cardinality({k \in 1..(i - 1) : t[k] = QUOTE /\ ~Escaped(t, k)}) % 2 = 0

\* The structural "}" and "]" of t that no comma precedes yet.
TrailingCommaSites(t) ==
    {i \in 1..Len(t) :
        /\ t[i] \in {"}", "]"}
        /\ OutsideStrings(t, i)
        /\ SkipWsBack(t, i - 1) >= 1
        /\ t[SkipWsBack(t, i - 1)] # ","}

\* t with a comma inserted immediately before position i.
InsertComma(t, i) == Slice(t, 1, i) \o <<",">> \o Slice(t, i, Len(t) + 1)

\* C5: when extractJSON recovers records from a text, it recovers the same
\* records from that text with a comma inserted immediately before one
\* structural "}" or "]", whichever strategy recovered them.
C5_TrailingCommaRobust ==
    (Done /\ ~raised /\ result # <<>>) =>
        \A i \in TrailingCommaSites(text) :
            \E o \in {ExtractJSON(InsertComma(text, i))} :
                o.kind = "return" /\ o.val = result

\* C6: every record extractJSON returns is a FileRecord.
C6_RecordsAreFileRecords ==
    Done => \A i \in 1..Len(result) : IsFileRecord(result[i])

\* ------------------------------------------------------------------
\* Claims about kimiComplete
\* ------------------------------------------------------------------

\* C7: called with retries >= 1, kimiComplete has at most one request in
\* flight, issues at most retries requests, issues none after it has returned,
\* and when it fails it has issued exactly retries requests and throws the
\* error its last attempt failed with.
C7_SequentialBoundedAttempts ==
    /\ [](retries >= 1 =>
            /\ inFlight <= 1
            /\ requests <= retries
            /\ pc = "failed" =>
                  /\ requests = retries
                  /\ lastError.n = retries
                  /\ thrown = lastError.e)
    /\ [][(retries >= 1 /\ pc = "returned") => requests' = requests]_vars

\* Every one of two or more attempts has failed, the last one on an empty
\* response, and kimiComplete has thrown.
C7_AllAttemptsFailed ==
    /\ retries >= 2
    /\ pc = "failed"
    /\ requests = retries
    /\ Len(sleeps) = retries - 1
    /\ thrown = "Empty response"

\* C8: when the stream of an attempt has ended, the attempt returns the
\* content accumulator if it is not empty and the reasoning accumulator
\* otherwise, and fails with "Empty response" if both are empty.
C8_ContentElseReasoning ==
    [][(pc = "finalizing" /\ pc' # "finalizing") =>
          IF fullContent = <<>> /\ reasoningContent = <<>>
          THEN /\ pc' \in {"sleeping", "failed"}
               /\ lastError' = [n |-> attempt, e |-> "Empty response"]
               /\ returned' = returned
          ELSE /\ pc' = "returned"
               /\ returned' # <<>>
               /\ returned' = IF fullContent # <<>> THEN fullContent
                              ELSE reasoningContent]_vars

\* Every delta of the response carried reasoning_content only, and the
\* attempt has returned the reasoning texts concatenated.
C8_ReasoningOnlyReturned ==
    /\ pc = "returned"
    /\ received = <<BodyOf(<<ReasoningT, ReasoningT>>)>>
    /\ fullContent = <<>>
    /\ returned = <<"t", "t">>

\* The lines of the response body read so far.
BodyLines == Split(Flatten(received), NEWLINE)

\* The delta a line of the body carries: choices[0].delta of its payload when
\* the line starts with "data: " and the payload is JSON; undefined otherwise.
DeltaOfLine(line) ==
    IF ~StartsWithAt(line, DATA_PREFIX, 1) THEN Undefined
    ELSE Bind(JSONParse(Slice(line, Len(DATA_PREFIX) + 1, Len(line) + 1)), LAMBDA parsed :
            IF ~parsed.ok THEN Undefined
            ELSE Prop(Prop(Prop(parsed.v, CHOICES), ZERO), DELTA))

\* The text a delta carries under key: empty when it carries none.
Payload(delta, key) ==
    IF Prop(delta, key).t = "str" THEN Prop(delta, key).s ELSE <<>>

\* The content payloads of lines, concatenated in order.
ContentOf(lines) ==
    Flatten([k \in 1..Len(lines) |-> Payload(DeltaOfLine(lines[k]), CONTENT)])

\* The reasoning payloads of lines, concatenated in order: reasoning_content,
\* or reasoning where a delta has no reasoning_content.
ReasoningOf(lines) ==
    Flatten([k \in 1..Len(lines) |->
        Bind(DeltaOfLine(lines[k]), LAMBDA delta :
            IF Payload(delta, REASONING_CONTENT) # <<>>
            THEN Payload(delta, REASONING_CONTENT)
            ELSE Payload(delta, REASONING))])

\* C9: at the end of the stream the content accumulator is the concatenation,
\* in arrival order, of the content payloads of the well-formed "data: " lines
\* of the response body, and the reasoning accumulator that of their reasoning
\* payloads; a malformed line adds nothing.
C9_AccumulatorsAreTheDeltasReceived ==
    pc = "finalizing" =>
        /\ fullContent = ContentOf(BodyLines)
        /\ reasoningContent = ReasoningOf(BodyLines)

\* The lines the parser has gone through: those of each chunk read, in order.
DecodedLines == Flatten([k \in 1..Len(received) |-> Split(received[k], NEWLINE)])

\* Whether the parser takes line for the end marker.
IsDoneLine(line) ==
    /\ StartsWithAt(line, DATA_PREFIX, 1)
    /\ Trim(Slice(line, Len(DATA_PREFIX) + 1, Len(line) + 1)) = DONE_SENTINEL

\* lines up to its first end marker: all of them if it has none.
UpToDone(lines) ==
    Bind({k \in 1..Len(lines) : IsDoneLine(lines[k])}, LAMBDA ks :
        IF ks = {} THEN lines
        ELSE SubSeq(lines, 1, (CHOOSE k \in ks : \A j \in ks : k <= j) - 1))

\* C10: once the parser has gone through a "data: [DONE]" line, no delta of a
\* later line of the response is appended: at the end of the stream the
\* accumulators hold the deltas of the lines before the end marker only.
C10_NothingAppendedAfterDone ==
    pc = "finalizing" =>
        /\ fullContent = ContentOf(UpToDone(DecodedLines))
        /\ reasoningContent = ReasoningOf(UpToDone(DecodedLines))

\* C11: every attempt is bounded by the abort timer, also while the body is
\* read, so kimiComplete always eventually returns or fails.
C11_AlwaysReturnsOrFails == <>(pc \in {"returned", "failed"})

\* C12: the sleeps are 10000 ms times the number of the attempt that failed,
\* one after every failed attempt but the last and none after a success.
C12_LinearBackoff ==
    /\ sleeps = [k \in 1..Len(sleeps) |-> 10000 * k]
    /\ Len(sleeps) = IF pc = "sleeping" THEN attempt ELSE attempt - 1
    /\ (pc = "failed" /\ retries >= 1) => Len(sleeps) = retries - 1

\* The second attempt of three has failed and kimiComplete sleeps 20000 ms.
C12_SleepsAfterSecondFailure ==
    /\ pc = "sleeping"
    /\ attempt = 2
    /\ retries = 3
    /\ sleeps = <<10000, 20000>>

\* ------------------------------------------------------------------
\* Source trees and the regular expressions run on their files
\* (src/patch-daemon.py, src/scripts/fix-existing-projects.py)
\* ------------------------------------------------------------------

\* The characters of a string literal, as a text.
Chars(s) == [i \in 1..Len(s) |-> SubSeq(s, i, i)]

\* The characters of a string literal, as a set.
CharSet(s) == {SubSeq(s, i, i) : i \in 1..Len(s)}

\* The words and names the regular expressions and the path tests look for.
FROM == Chars("from")
REQUIRE == Chars("require")
IMPORT == Chars("import")
EXPORT == Chars("export")
DEFAULT == Chars("default")
ALIAS == Chars("@/")
LATEST == Chars("latest")
AtAndLetters == CharSet("@abcdefghijklmnopqrstuvwxyzABCDEFGHIJKLMNOPQRSTUVWXYZ")
WordChars == CharSet("abcdefghijklmnopqrstuvwxyzABCDEFGHIJKLMNOPQRSTUVWXYZ0123456789_")

\* The least number of a non-empty set of numbers.
Least(S) == CHOOSE k \in S : \A q \in S : k <= q

\* parts.join(sep)
Join(parts, sep) ==
    Flatten([k \in 1..Len(parts) |->
                IF k = 1 THEN parts[k] ELSE <<sep>> \o parts[k]])

\* ['"] of the regular expressions.
QuoteChars == {"'", QUOTE}

\* [@a-zA-Z]
IsAtOrLetter(c) == c \in AtAndLetters

\* [^./]
IsNotDotOrSlash(c) == c \notin {".", "/"}

\* \w
IsWordChar(c) == c \in WordChars

\* What a regular expression gives at a position: no match, or the captured
\* text with the first position of the match and the first one behind it.
NoMatch == [ok |-> FALSE, spec |-> <<>>, start |-> 0, end |-> 0]
Match(spec, start, end) == [ok |-> TRUE, spec |-> spec, start |-> start, end |-> end]

\* ['"](F[^'"]*)['"] at position j of t, for a match that starts at position
\* start: a quote, one character of the class F, everything up to the next
\* quote (at least rest characters), and that quote.
QuotedAt(t, start, j, F(_), rest) ==
    IF j + 1 > Len(t) \/ t[j] \notin QuoteChars \/ ~F(t[j + 1]) THEN NoMatch
    ELSE Bind({k \in (j + 2)..Len(t) : t[k] \in QuoteChars}, LAMBDA closing :
            IF closing = {} \/ Least(closing) < j + 2 + rest THEN NoMatch
            ELSE Match(Slice(t, j + 1, Least(closing)), start, Least(closing) + 1))

\* /from\s+['"](F[^'"]*)['"]/ at position i of t.
FromAt(t, i, F(_), rest) ==
    IF ~StartsWithAt(t, FROM, i) THEN NoMatch
    ELSE Bind(SkipWs(t, i + 4), LAMBDA j :
            IF j = i + 4 THEN NoMatch ELSE QuotedAt(t, i, j, F, rest))

\* /require\s*\(\s*['"]([@a-zA-Z][^'"]*)['"]/ at position i of t.
RequireAt(t, i) ==
    IF ~StartsWithAt(t, REQUIRE, i) THEN NoMatch
    ELSE Bind(SkipWs(t, i + 7), LAMBDA p :
            IF p > Len(t) \/ t[p] # "(" THEN NoMatch
            ELSE QuotedAt(t, i, SkipWs(t, p + 1), IsAtOrLetter, 0))

\* t.match(re) of a regular expression without the g flag, At(t, i) being
\* its match at position i: the leftmost match at or behind position from.
FirstMatch(t, At(_, _), from) ==
    Bind({i \in from..Len(t) : At(t, i).ok}, LAMBDA hits :
        IF hits = {} THEN NoMatch ELSE At(t, Least(hits)))

RECURSIVE AllMatches(_, _, _)
\* The successive matches of a regular expression with the g flag (matchAll,
\* exec in a loop, finditer): each is looked for behind the one before.
AllMatches(t, At(_, _), from) ==
    Bind(FirstMatch(t, At, from), LAMBDA m :
        IF ~m.ok THEN <<>> ELSE <<m>> \o AllMatches(t, At, m.end))

\* line.match(/from\s+['"]([@a-zA-Z][^'"]*)['"]/)
FromMatch(line) ==
    FirstMatch(line, LAMBDA t, i : FromAt(t, i, IsAtOrLetter, 0), 1)

\* line.match(/require\s*\(\s*['"]([@a-zA-Z][^'"]*)['"]/)
RequireMatch(line) == FirstMatch(line, RequireAt, 1)

\* pkg.startsWith("@") ? pkg.split("/").slice(0, 2).join("/") : pkg.split("/")[0]
BasePkg(pkg) ==
    Bind(Split(pkg, "/"), LAMBDA segs :
        IF StartsWithAt(pkg, <<"@">>, 1)
        THEN Join(SubSeq(segs, 1, IF Len(segs) < 2 THEN Len(segs) ELSE 2), "/")
        ELSE segs[1])

\* basePkg.startsWith("next/")
NEXT_SLASH == Chars("next/")

\* const builtins = [...] of autoDetectAndInstallMissingPackages
Builtins ==
    {Chars(b) : b \in {"react", "react-dom", "next", "fs", "path", "util", "crypto",
                       "stream", "http", "https", "url", "os", "child_process",
                       "events", "buffer", "querystring", "assert", "tty", "net",
                       "dns", "zlib", "process"}}

\* NODE_BUILTINS of fix-existing-projects.py
NODE_BUILTINS ==
    {Chars(b) : b \in {"fs", "path", "os", "crypto", "stream", "util", "http", "https",
                       "url", "events", "buffer", "child_process", "net", "tls",
                       "dns", "zlib", "querystring", "assert", "readline",
                       "string_decoder", "timers", "vm", "worker_threads",
                       "cluster", "dgram", "perf_hooks", "next", "react",
                       "react-dom"}}

\* A table of version pins, <<package, version>>, as texts.
Pins(table) == [k \in 1..Len(table) |-> <<Chars(table[k][1]), Chars(table[k][2])>>]

\* The table of version pins of the daemon.
KNOWN_GOOD_VERSIONS ==
  Pins(
    <<<<"next", "^14.2.21">>, <<"react", "^18.3.1">>,
      <<"react-dom", "^18.3.1">>, <<"typescript", "^5.7.3">>,
      <<"@types/node", "^20.17.16">>, <<"@types/react", "^18.3.18">>,
      <<"@types/react-dom", "^18.3.5">>, <<"tailwindcss", "^3.4.17">>,
      <<"postcss", "^8.5.1">>, <<"autoprefixer", "^10.4.20">>,
      <<"eslint", "^8.56.0">>, <<"eslint-config-next", "^14.2.21">>,
      <<"@supabase/supabase-js", "^2.49.1">>, <<"lucide-react", "^0.469.0">>,
      <<"framer-motion", "^11.18.0">>, <<"recharts", "^2.15.0">>,
      <<"date-fns", "^4.1.0">>, <<"clsx", "^2.1.0">>,
      <<"tailwind-merge", "^2.2.0">>, <<"class-variance-authority", "^0.7.0">>,
      <<"@radix-ui/react-dialog", "^1.0.5">>,
      <<"@radix-ui/react-dropdown-menu", "^2.0.6">>,
      <<"@radix-ui/react-slot", "^1.0.2">>,
      <<"@radix-ui/react-toast", "^1.1.5">>,
      <<"@radix-ui/react-tabs", "^1.0.4">>, <<"zustand", "^4.5.0">>,
      <<"react-hot-toast", "^2.4.1">>, <<"react-icons", "^5.0.1">>,
      <<"uuid", "^9.0.0">>, <<"zod", "^3.22.0">>, <<"sonner", "^1.4.0">>,
      <<"react-hook-form", "^7.50.0">>, <<"@heroicons/react", "^2.1.1">>,
      <<"chart.js", "^4.4.1">>, <<"react-chartjs-2", "^5.2.0">>,
      <<"cmdk", "^0.2.0">>, <<"react-dropzone", "^14.2.3">>,
      <<"react-markdown", "^9.0.1">>, <<"next-themes", "^0.2.1">>,
      <<"sharp", "^0.33.2">>, <<"axios", "^1.6.7">>>>)

\* The table of version pins of fix-existing-projects.py.
PY_KNOWN_GOOD_VERSIONS ==
  Pins(
    <<<<"next", "^14.2.21">>, <<"react", "^18.3.1">>,
      <<"react-dom", "^18.3.1">>, <<"typescript", "^5.7.3">>,
      <<"@types/node", "^20.17.16">>, <<"@types/react", "^18.3.18">>,
      <<"@types/react-dom", "^18.3.5">>, <<"tailwindcss", "^3.4.17">>,
      <<"postcss", "^8.5.1">>, <<"autoprefixer", "^10.4.20">>,
      <<"eslint", "^8.56.0">>, <<"eslint-config-next", "^14.2.21">>,
      <<"@supabase/supabase-js", "^2.49.1">>, <<"lucide-react", "^0.469.0">>,
      <<"framer-motion", "^11.18.0">>, <<"recharts", "^2.15.0">>,
      <<"date-fns", "^4.1.0">>, <<"clsx", "^2.1.0">>,
      <<"tailwind-merge", "^2.2.0">>, <<"react-hot-toast", "^2.4.1">>,
      <<"sonner", "^1.7.0">>, <<"zustand", "^5.0.0">>,
      <<"@headlessui/react", "^2.2.0">>, <<"@heroicons/react", "^2.2.0">>,
      <<"react-icons", "^5.4.0">>, <<"chart.js", "^4.4.0">>,
      <<"react-chartjs-2", "^5.2.0">>, <<"papaparse", "^5.4.1">>,
      <<"js-yaml", "^4.1.0">>, <<"fast-xml-parser", "^4.3.4">>,
      <<"jspdf", "^2.5.1">>, <<"jspdf-autotable", "^3.8.2">>,
      <<"@dnd-kit/core", "^6.3.0">>, <<"@dnd-kit/sortable", "^10.0.0">>>>)

\* table[name] || "latest", and table.get(name, "latest")
PinnedVersion(table, name) ==
    Bind({k \in 1..Len(table) : table[k][1] = name}, LAMBDA hits :
        IF hits = {} THEN LATEST ELSE table[Least(hits)][2])

\* ------------------------------------------------------------------
\* The files of a project
\* ------------------------------------------------------------------

\* Whether t ends with suf.
EndsWith(t, suf) ==
    Len(suf) <= Len(t) /\ StartsWithAt(t, suf, Len(t) - Len(suf) + 1)

\* const exts = [".tsx", ".ts", ".jsx", ".js"]
exts == <<Chars(".tsx"), Chars(".ts"), Chars(".jsx"), Chars(".js")>>

\* The names walkSrc2 and walkSrc3 pass over, and those os.walk is kept from.
SkippedByWalkSrc == {Chars("node_modules"), Chars(".next"), Chars(".git")}
SkippedByOsWalk == {Chars("node_modules"), Chars(".next")}

\* Whether a walk that skips the entries with the names of skipped reaches the
\* file at path and keeps it: no name of the path is skipped and the file's
\* name ends with one of exts.
IsSourcePath(path, skipped) ==
    Bind(Split(path, "/"), LAMBDA names :
        /\ \A k \in 1..Len(names) : names[k] \notin skipped
        /\ \E e \in 1..Len(exts) : EndsWith(names[Len(names)], exts[e]))

\* walkSrc2(projectPath) and walkSrc3(projectPath): the source files of the
\* project outside node_modules, .next and .git, as the directories list them.
walkSrc(d) ==
    SelectSeq(d, LAMBDA f : IsSourcePath(f.path, SkippedByWalkSrc))

\* os.walk(src_dir) with node_modules and .next pruned, files filtered by
\* their extension.
os_walk(d) ==
    SelectSeq(d, LAMBDA f : IsSourcePath(f.path, SkippedByOsWalk))

HasFile(d, path) == \E k \in 1..Len(d) : d[k].path = path

\* The content of the file at path, which exists.
ReadFile(d, path) == d[CHOOSE k \in 1..Len(d) : d[k].path = path].content

\* The disk after the file at path is written: replaced where it is listed,
\* listed last if it is new.
WriteFile(d, path, content) ==
    IF HasFile(d, path)
    THEN [k \in 1..Len(d) |-> IF d[k].path = path THEN [d[k] EXCEPT !.content = content]
                              ELSE d[k]]
    ELSE Append(d, [path |-> path, content |-> content])

\* The elements of seq in order, each at its first occurrence only: the
\* iteration order of a Set the elements were added to.
Distinct(seq) ==
    Bind(SelectSeq([k \in 1..Len(seq) |-> k],
                   LAMBDA k : \A q \in 1..(k - 1) : seq[q] # seq[k]),
         LAMBDA kept : [k \in 1..Len(kept) |-> seq[kept[k]]])

\* ------------------------------------------------------------------
\* JSON.stringify(value, null, 2) and json.dump(value, f, indent=2)
\* ------------------------------------------------------------------

Spaces(n) == [k \in 1..n |-> " "]

RECURSIVE Stringify(_, _)
\* The text of value v at indentation n: a string is quoted and escaped; an
\* array or object without elements is [] or {}; otherwise every element or
\* "key": value stands on a line of its own, two spaces deeper.
Stringify(v, n) ==
    IF v.t = "str" THEN QuoteString(v.s)
    ELSE IF v.kids = <<>> THEN (IF v.t = "arr" THEN <<"[", "]">> ELSE <<"{", "}">>)
    ELSE (IF v.t = "arr" THEN <<"[">> ELSE <<"{">>)
         \o Flatten([k \in 1..Len(v.kids) |->
                (IF k = 1 THEN <<>> ELSE <<",">>) \o <<NEWLINE>> \o Spaces(n + 2)
                \o (IF v.t = "arr" THEN Stringify(v.kids[k], n + 2)
                    ELSE QuoteString(v.kids[k].s) \o <<":", " ">>
                         \o Stringify(v.kids[k].kids[1], n + 2))])
         \o <<NEWLINE>> \o Spaces(n)
         \o (IF v.t = "arr" THEN <<"]">> ELSE <<"}">>)

\* ------------------------------------------------------------------
\* autoDetectAndInstallMissingPackages (src/patch-daemon.py)
\* ------------------------------------------------------------------

PACKAGE_JSON == Chars("package.json")
DEPENDENCIES == Chars("dependencies")
DEV_DEPENDENCIES == Chars("devDependencies")

\* (fromMatch && fromMatch[1]) || (requireMatch && requireMatch[1]): the
\* capture of the first from of the line, or of its first require if it has
\* no from; empty if it has neither.
LinePackage(line) ==
    Bind(FromMatch(line), LAMBDA fromMatch :
        IF fromMatch.ok THEN fromMatch.spec ELSE RequireMatch(line).spec)

\* The body of if (pkg) { ... } gives the set at most one name: the base
\* package, unless it is a builtin.
NamesOfLine(line) ==
    Bind(LinePackage(line), LAMBDA pkg :
        IF pkg = <<>> THEN <<>>
        ELSE Bind(BasePkg(pkg), LAMBDA basePkg :
                IF basePkg \notin Builtins /\ ~StartsWithAt(basePkg, NEXT_SLASH, 1)
                THEN <<basePkg>> ELSE <<>>))

\* importedPackages after the loop over the lines of the source files.
importedPackages(d) ==
    Bind(walkSrc(d), LAMBDA sourceFiles :
        Bind(Flatten([k \in 1..Len(sourceFiles) |->
                        Split(sourceFiles[k].content, NEWLINE)]),
             LAMBDA lines :
                Distinct(Flatten([k \in 1..Len(lines) |-> NamesOfLine(lines[k])]))))

\* let pkg = {}; try { pkg = JSON.parse(await fs.readFile(pkgPath)) } catch {}
ReadPkg(d) ==
    IF ~HasFile(d, PACKAGE_JSON) THEN ObjNode(<<>>)
    ELSE Bind(JSONParse(ReadFile(d, PACKAGE_JSON)), LAMBDA r :
            IF r.ok THEN r.v ELSE ObjNode(<<>>))

\* The members v || {} spreads into an object literal.
SpreadOf(v) == IF v.t = "obj" THEN v.kids ELSE <<>>

RECURSIVE SetKeys(_, _)
\* members after the members of more are assigned to it one by one.
SetKeys(members, more) ==
    IF more = <<>> THEN members
    ELSE SetKeys(SetKey(members, Head(more).s, Head(more).kids[1]), Tail(more))

\* { ...(pkg.dependencies || {}), ...(pkg.devDependencies || {}) }
allDeps(pkg) ==
    ObjNode(SetKeys(SpreadOf(Prop(pkg, DEPENDENCIES)), SpreadOf(Prop(pkg, DEV_DEPENDENCIES))))

\* A test that takes every imported package for missing.
AlwaysMissing(deps, pkgName) == TRUE

\* !allDeps[pkgName]
IsMissing(deps, pkgName) == ~Truthy(Prop(deps, pkgName))

\* missingPackages: the imported packages allDeps has no version for.
missingPackages(pkg, imported) ==
    Bind(allDeps(pkg), LAMBDA deps : SelectSeq(imported, LAMBDA n : IsMissing(deps, n)))

\* pkg after if (!pkg.dependencies) pkg.dependencies = {} and the loop that
\* assigns every missing package its pinned version or "latest".
WithDependencies(pkg, missing, table) ==
    Bind(Prop(pkg, DEPENDENCIES), LAMBDA deps :
        ObjNode(SetKey(pkg.kids, DEPENDENCIES,
            ObjNode(SetKeys(IF Truthy(deps) THEN deps.kids ELSE <<>>,
                            [k \in 1..Len(missing) |->
                                MemNode(missing[k],
                                        StrNode(PinnedVersion(table, missing[k])))])))))

\* What a run leaves behind: the disk, the paths it wrote, the packages it
\* added and the commands it ran.
Outcome(d, w, a, c) == [disk |-> d, writes |-> w, added |-> a, commands |-> c]

\* The function from its first line to its last: nothing is written when no
\* package is imported or none is missing.
Reconciled(d) ==
    Bind(importedPackages(d), LAMBDA imported :
        IF imported = <<>> THEN Outcome(d, <<>>, <<>>, <<>>)
        ELSE Bind(ReadPkg(d), LAMBDA pkg :
                Bind(missingPackages(pkg, imported), LAMBDA missing :
                    IF missing = <<>> THEN Outcome(d, <<>>, <<>>, <<>>)
                    ELSE Outcome(WriteFile(d, PACKAGE_JSON,
                                    Stringify(WithDependencies(pkg, missing,
                                                               KNOWN_GOOD_VERSIONS), 0)),
                                 <<PACKAGE_JSON>>, missing, <<>>))))

\* ------------------------------------------------------------------
\* fix_project (src/scripts/fix-existing-projects.py)
\* ------------------------------------------------------------------

\* The printable ASCII characters in the order of their code points (but the
\* back quote).
ASCII ==
    Chars(" !\"#$%&'()*+,-./0123456789:;<=>?@ABCDEFGHIJKLMNOPQRSTUVWXYZ[\\]^_")
    \o Chars("abcdefghijklmnopqrstuvwxyz{|}~")

\* The place of a character in the order of the code points.
Ord(c) == Least({k \in 1..Len(ASCII) : ASCII[k] = c})

\* a < b for two Python strings.
Precedes(a, b) ==
    \E k \in 1..(Len(a) + 1) :
        /\ k <= Len(b)
        /\ \A q \in 1..(k - 1) : a[q] = b[q]
        /\ k > Len(a) \/ Ord(a[k]) < Ord(b[k])

RECURSIVE sorted(_)
\* sorted(S) for a set of strings.
sorted(S) ==
    IF S = {} THEN <<>>
    ELSE Bind(CHOOSE x \in S : \A y \in S \ {x} : Precedes(x, y),
              LAMBDA least : <<least>> \o sorted(S \ {least}))

\* IMPORT_RE.finditer(code): the matches of from\s+['"]([^./][^'"]+)['"]
IMPORT_RE(code) ==
    AllMatches(code, LAMBDA t, i : FromAt(t, i, IsNotDotOrSlash, 1), 1)

\* The names one file gives to needed.
NeededOf(code) ==
    Bind(IMPORT_RE(code), LAMBDA matches :
        {base \in {BasePkg(matches[k].spec) : k \in 1..Len(matches)} :
            /\ base # <<>>
            /\ ~StartsWithAt(base, ALIAS, 1)
            /\ base \notin NODE_BUILTINS})

\* scan_imports(src_dir) | scan_imports(project_path): src lies below the
\* project, so the second scan sees every file of the first.
scan_imports(d) ==
    Bind(os_walk(d), LAMBDA files :
        UNION {NeededOf(files[k].content) : k \in 1..Len(files)})

\* The keys of pkg.get(key, {}).
KeysOf(pkg, key) ==
    Bind(Prop(pkg, key), LAMBDA deps : {deps.kids[k].s : k \in 1..Len(deps.kids)})

NEXT_CONFIG_JS == Chars("next.config.js")

SAFE_NEXT_CONFIG ==
    Chars("/** @type {import('next').NextConfig} */\nconst nextConfig = {\n")
    \o Chars("  reactStrictMode: true,\n  images: { unoptimized: true },\n")
    \o Chars("  typescript: { ignoreBuildErrors: true },\n")
    \o Chars("  eslint: { ignoreDuringBuilds: true },\n};\n\n")
    \o Chars("module.exports = nextConfig;\n")

NPM_INSTALL == "npm install"
VERCEL_DEPLOY == "npx vercel --prod --yes"

\* fix_project from the manifest read to the deployment: the manifest is
\* written if a dependency was added, next.config.js always, and the project
\* is installed and deployed.
FixedFrom(d, pkg) ==
    Bind(sorted(scan_imports(d) \ (KeysOf(pkg, DEPENDENCIES) \cup KeysOf(pkg, DEV_DEPENDENCIES))),
         LAMBDA missing :
            Outcome(WriteFile(IF missing = <<>> THEN d
                              ELSE WriteFile(d, PACKAGE_JSON,
                                        Stringify(WithDependencies(pkg, missing,
                                                    PY_KNOWN_GOOD_VERSIONS), 0)),
                              NEXT_CONFIG_JS, SAFE_NEXT_CONFIG),
                    (IF missing = <<>> THEN <<>> ELSE <<PACKAGE_JSON>>)
                        \o <<NEXT_CONFIG_JS>>,
                    missing,
                    <<NPM_INSTALL, VERCEL_DEPLOY>>))

\* fix_project(project_path, project_name): it returns at once without a
\* manifest, and json.load raises on one that is no JSON object.
Fixed(d) ==
    IF ~HasFile(d, PACKAGE_JSON) THEN Outcome(d, <<>>, <<>>, <<>>)
    ELSE Bind(JSONParse(ReadFile(d, PACKAGE_JSON)), LAMBDA r :
            IF ~r.ok \/ r.v.t # "obj" THEN Outcome(d, <<>>, <<>>, <<>>)
            ELSE FixedFrom(d, r.v))

\* ------------------------------------------------------------------
\* The projects reconcile is run on
\* ------------------------------------------------------------------

\* The runs of reconcile in a row.
MaxRuns == 2
\* The lines of the source file of a project.
MaxImportLines == 2

\* The lines a source file is made of: imports of packages the tables pin
\* and of one they do not, a require, a scoped package, a framework package,
\* a builtin, a path alias, a relative path, and two imports on one line.
ImportLines ==
    {Chars(l) : l \in {"import clsx from \"clsx\"",
                       "import { z } from 'zod'",
                       "const axios = require(\"axios\")",
                       "import { Slot } from \"@radix-ui/react-slot\"",
                       "import Link from \"next/link\"",
                       "import fs from \"fs\"",
                       "import Button from \"@/components/Button\"",
                       "import { helper } from \"./util\"",
                       "import ms from \"ms\"",
                       "import a from \"clsx\"; import { z } from \"zod\""}}

\* The texts of one to n lines of ImportLines.
SourceTexts(n) == {Join(ls, NEWLINE) : ls \in SeqsUpTo(ImportLines, n) \ {<<>>}}

File(path, content) == [path |-> Chars(path), content |-> content]

\* The manifests a project comes with: one without dependencies, one with a
\* dependency at another version than the table's, one with both sections,
\* and one that JSON.parse rejects (a trailing comma).
Manifests ==
    {Chars(m) : m \in {"{\"name\": \"app\"}",
                       "{\"name\": \"app\", \"dependencies\": {\"clsx\": \"^1.2.1\"}}",
                       "{\"dependencies\": {\"react\": \"^18.3.1\"}, "
                            \o "\"devDependencies\": {\"zod\": \"^3.20.0\"}}",
                       "{\"name\": \"app\", \"dependencies\": {\"react\": \"^18.3.1\",}}"}}

\* A project: its manifest, if it has one, one source file, and an installed
\* package whose file imports a package of its own.
Projects ==
    {manifest \o <<File("src/app.tsx", src),
                   File("node_modules/pkg/index.js", Chars("import pad from \"left-pad\""))>> :
        manifest \in {<<>>} \cup {<<File("package.json", m)>> : m \in Manifests},
        src \in SourceTexts(MaxImportLines)}

\* ------------------------------------------------------------------
\* reconcile, one run a step
\* ------------------------------------------------------------------

ReconcileInit ==
    /\ disk \in Projects
    /\ impl \in {"ts", "py"}
    /\ runs = 0
    /\ writes = <<>>
    /\ added = <<>>
    /\ commands = <<>>
    /\ VerifyIdle
    /\ PipelineIdle
    /\ ExtractIdle
    /\ CompleteIdle

\* What a run that did o leaves behind.
Ran(o) ==
    /\ disk' = o.disk
    /\ writes' = writes \o o.writes
    /\ added' = Append(added, o.added)
    /\ commands' = commands \o o.commands
    /\ runs' = runs + 1
    /\ UNCHANGED <<impl, verifyVars, pipeVars, extractVars, completeVars>>

autoDetectAndInstallMissingPackages ==
    /\ impl = "ts"
    /\ runs < MaxRuns
    /\ \E o \in {Reconciled(disk)} : Ran(o)

fix_project ==
    /\ impl = "py"
    /\ runs < MaxRuns
    /\ \E o \in {Fixed(disk)} : Ran(o)

ReconcileNext == autoDetectAndInstallMissingPackages \/ fix_project

ReconcileSpec == ReconcileInit /\ [][ReconcileNext]_vars

\* ------------------------------------------------------------------
\* Claims about reconcile
\* ------------------------------------------------------------------

\* The entries <<package, version>> of a section of the manifest on disk d;
\* none if there is no manifest or it is no JSON object.
EntriesOf(d, section) ==
    IF ~HasFile(d, PACKAGE_JSON) THEN {}
    ELSE Bind(JSONParse(ReadFile(d, PACKAGE_JSON)), LAMBDA r :
            IF ~r.ok THEN {}
            ELSE Bind(Prop(r.v, section), LAMBDA deps :
                    {<<deps.kids[k].s, deps.kids[k].kids[1]>> : k \in 1..Len(deps.kids)}))

\* The packages the manifest on disk d declares in either section.
Declared(d) ==
    {e[1] : e \in EntriesOf(d, DEPENDENCIES) \cup EntriesOf(d, DEV_DEPENDENCIES)}

\* The paths the step at hand writes.
NewWrites == {writes'[k] : k \in (Len(writes) + 1)..Len(writes')}

\* A step that is a run of reconcile.
IsRun == runs' = runs + 1

\* The manifest file itself, as far as it exists.
ManifestText(d) == IF HasFile(d, PACKAGE_JSON) THEN <<ReadFile(d, PACKAGE_JSON)>> ELSE <<>>

\* C13: a second run of reconcile on the tree the first run left adds no
\* package, leaves the manifest as it is and does not write it.
C13_SecondRunIsNoOp ==
    [][(IsRun /\ runs >= 1) =>
            /\ added'[runs'] = <<>>
            /\ ManifestText(disk') = ManifestText(disk)
            /\ PACKAGE_JSON \notin NewWrites]_vars

\* The daemon's reconcile has run twice; the first run added packages.
C13_RanTwiceAfterAdding ==
    /\ impl = "ts"
    /\ runs = 2
    /\ added[1] # <<>>
    /\ PACKAGE_JSON \in {writes[k] : k \in 1..Len(writes)}

IsNoQuote(c) == c \notin QuoteChars

\* The specifiers of the occurrences of import ... from "<spec>" and of
\* require("<spec>") in a text, wherever they stand on their lines.
Specifiers(code) ==
    Bind(AllMatches(code, LAMBDA t, i : FromAt(t, i, IsNoQuote, 0), 1)
            \o AllMatches(code, LAMBDA t, i :
                    IF ~StartsWithAt(t, REQUIRE, i) THEN NoMatch
                    ELSE Bind(SkipWs(t, i + 7), LAMBDA p :
                            IF p > Len(t) \/ t[p] # "(" THEN NoMatch
                            ELSE QuotedAt(t, i, SkipWs(t, p + 1), IsNoQuote, 0)), 1),
         LAMBDA matches : {matches[k].spec : k \in 1..Len(matches)})

\* A specifier names a platform builtin or a package of the framework.
IsBuiltinSpecifier(spec) == BasePkg(spec) \in Builtins \cup NODE_BUILTINS

\* A specifier names a file of the project: a relative or absolute path, or
\* one under the path alias.
IsLocalSpecifier(spec) ==
    \/ StartsWithAt(spec, <<".">>, 1)
    \/ StartsWithAt(spec, <<"/">>, 1)
    \/ StartsWithAt(spec, ALIAS, 1)

\* The table of the implementation that is run.
TableOf(i) == IF i = "py" THEN PY_KNOWN_GOOD_VERSIONS ELSE KNOWN_GOOD_VERSIONS

\* The source files of disk d outside the directories of dependencies and of
\* build output.
SourcesOf(d) == {d[k] : k \in {q \in 1..Len(d) : IsSourcePath(d[q].path, SkippedByWalkSrc)}}

\* C14: every package a source file imports with from or require, that is
\* not excluded and that the manifest does not declare, is in dependencies
\* after the run at its pinned version, or at "latest" if it has none.
C14_EveryImportedPackageAdded ==
    [][(IsRun /\ runs = 0) =>
            \A f \in SourcesOf(disk) : \A spec \in Specifiers(f.content) :
                (/\ ~IsBuiltinSpecifier(spec)
                 /\ ~IsLocalSpecifier(spec)
                 /\ BasePkg(spec) \notin Declared(disk))
                => <<BasePkg(spec), StrNode(PinnedVersion(TableOf(impl), BasePkg(spec)))>>
                        \in EntriesOf(disk', DEPENDENCIES)]_vars

\* C15: reconcile adds no entry for a platform builtin, a package of the
\* framework, a relative specifier or a specifier under the path alias.
C15_NeverAddsExcluded ==
    [][IsRun =>
            \A e \in EntriesOf(disk', DEPENDENCIES) \ EntriesOf(disk, DEPENDENCIES) :
                ~IsBuiltinSpecifier(e[1]) /\ ~IsLocalSpecifier(e[1])]_vars

\* C16: a run changes no file but the manifest, keeps every entry the
\* manifest had, and writes the manifest only when it added a package.
C16_OnlyAddsToManifest ==
    [][IsRun =>
            /\ \A k \in 1..Len(disk') :
                    disk'[k].path # PACKAGE_JSON => k <= Len(disk) /\ disk'[k] = disk[k]
            /\ \A k \in 1..Len(disk) : HasFile(disk', disk[k].path)
            /\ NewWrites \subseteq {PACKAGE_JSON}
            /\ EntriesOf(disk, DEPENDENCIES) \subseteq EntriesOf(disk', DEPENDENCIES)
            /\ EntriesOf(disk, DEV_DEPENDENCIES) \subseteq EntriesOf(disk', DEV_DEPENDENCIES)
            /\ PACKAGE_JSON \in NewWrites => added'[runs'] # <<>>]_vars

\* ------------------------------------------------------------------
\* fixImportExportMismatches (src/patch-daemon.py)
\* ------------------------------------------------------------------

\* /export\s+default\s+/.test(content)
hasDefault(content) ==
    \E i \in 1..Len(content) :
        /\ StartsWithAt(content, EXPORT, i)
        /\ \E j \in {SkipWs(content, i + 6)} :
            /\ j > i + 6
            /\ StartsWithAt(content, DEFAULT, j)
            /\ j + 7 <= Len(content)
            /\ IsWs(content[j + 7])

\* The first position >= i of t that holds no word character: where a greedy
\* \w* stops.
SkipWord(t, i) ==
    Bind({k \in i..Len(t) : ~IsWordChar(t[k])},
         LAMBDA stops : IF stops = {} THEN (IF i > Len(t) THEN i ELSE Len(t) + 1)
                        ELSE Least(stops))

\* \s+(\w+) at position i of t, for a match that starts at position start:
\* the word is the capture.
WordAfterWs(t, start, i) ==
    Bind(SkipWs(t, i), LAMBDA j :
        IF j = i THEN NoMatch
        ELSE Bind(SkipWord(t, j), LAMBDA e :
                IF e = j THEN NoMatch ELSE Match(Slice(t, j, e), start, e)))

\* (?:function|const|class)
ExportKeywords == {Chars("function"), Chars("const"), Chars("class")}

\* /export\s+(?:function|const|class)\s+(\w+)/ at position i of t.
NamedExportAt(t, i) ==
    IF ~StartsWithAt(t, EXPORT, i) THEN NoMatch
    ELSE Bind(SkipWs(t, i + 6), LAMBDA j :
            IF j = i + 6 THEN NoMatch
            ELSE Bind({kw \in ExportKeywords :
                            StartsWithAt(t, kw, j)},
                      LAMBDA kws :
                        IF kws = {} THEN NoMatch
                        ELSE WordAfterWs(t, i, j + Len(CHOOSE kw \in kws : TRUE))))

\* namedExports: the captures of the matches of the pattern, in order.
namedExports(content) ==
    Bind(AllMatches(content, NamedExportAt, 1), LAMBDA ms :
        [k \in 1..Len(ms) |-> ms[k].spec])

\* What the import pattern captures: importName (match[1]) and importPath
\* (match[2], as spec).
ImportMatch(name, m) ==
    [ok |-> TRUE, name |-> name, spec |-> m.spec, start |-> m.start, end |-> m.end]

\* (@\/[^'"]+|\.\/?[^'"]+|\.\.\/[^'"]+) between quotes at position j of t:
\* "@/" or "." and at least one character more, up to the next quote.
LocalPathAt(t, start, j) ==
    IF j + 1 <= Len(t) /\ t[j + 1] = "@"
    THEN (IF j + 2 <= Len(t) /\ t[j + 2] = "/"
          THEN QuotedAt(t, start, j, LAMBDA c : c = "@", 2) ELSE NoMatch)
    ELSE QuotedAt(t, start, j, LAMBDA c : c = ".", 1)

\* /import\s+(\w+)\s+from\s+['"](@\/[^'"]+|\.\/?[^'"]+|\.\.\/[^'"]+)['"]/ at
\* position i of t.
DefaultImportAt(t, i) ==
    IF ~StartsWithAt(t, IMPORT, i) THEN NoMatch
    ELSE Bind(WordAfterWs(t, i, i + 6), LAMBDA w :
            IF ~w.ok THEN NoMatch
            ELSE Bind(SkipWs(t, w.end), LAMBDA f :
                    IF f = w.end \/ ~StartsWithAt(t, FROM, f) THEN NoMatch
                    ELSE Bind(SkipWs(t, f + 4), LAMBDA j :
                            IF j = f + 4 THEN NoMatch
                            ELSE Bind(LocalPathAt(t, i, j), LAMBDA m :
                                    IF m.ok THEN ImportMatch(w.spec, m) ELSE NoMatch))))

RECURSIVE ResolveFrom(_, _)
\* path.resolve(dir, importPath), then path.relative(projectPath, it), on the
\* names of the paths: "." and an empty name are dropped, ".." drops the name
\* before it, and stays where it climbs out of the project.
ResolveFrom(dir, names) ==
    IF names = <<>> THEN dir
    ELSE IF Head(names) \in {<<>>, <<".">>} THEN ResolveFrom(dir, Tail(names))
    ELSE IF Head(names) = <<".", ".">> /\ dir # <<>> /\ dir[Len(dir)] # <<".", ".">>
         THEN ResolveFrom(SubSeq(dir, 1, Len(dir) - 1), Tail(names))
    ELSE ResolveFrom(Append(dir, Head(names)), Tail(names))

SRC_SLASH == Chars("src/")

\* resolvedRelPath of an import of importPath in the file at path file.
resolvedRelPath(file, importPath) ==
    IF StartsWithAt(importPath, ALIAS, 1)
    THEN SRC_SLASH \o Slice(importPath, 3, Len(importPath) + 1)
    ELSE Bind(Split(file, "/"), LAMBDA names :
            Join(ResolveFrom(SubSeq(names, 1, Len(names) - 1), Split(importPath, "/")),
                 "/"))

\* candidates
candidates(resolved) ==
    <<resolved>> \o [k \in 1..Len(exts) |-> resolved \o exts[k]]

\* exportInfo: the entry of exportMap for the first candidate that has one;
\* found is FALSE where exportInfo stays null.
exportInfo(sourceFiles, resolved) ==
    Bind(SelectSeq(candidates(resolved), LAMBDA c : HasFile(sourceFiles, c)), LAMBDA cs :
        IF cs = <<>> THEN [found |-> FALSE, hasDefault |-> FALSE, namedExports |-> <<>>]
        ELSE Bind(ReadFile(sourceFiles, Head(cs)), LAMBDA content :
                [found |-> TRUE, hasDefault |-> hasDefault(content),
                 namedExports |-> namedExports(content)]))

\* A test that lets an import of a file with a default export be rewritten.
IgnoringDefault(info, importName) ==
    info.found /\ \E k \in 1..Len(info.namedExports) : info.namedExports[k] = importName

\* exportInfo && !exportInfo.hasDefault && exportInfo.namedExports.includes(importName)
IsMismatch(info, importName) ==
    /\ info.found
    /\ ~info.hasDefault
    /\ \E k \in 1..Len(info.namedExports) : info.namedExports[k] = importName

\* The template of the named import, around importName.
IMPORT_OPEN == Chars("import { ")
FROM_AFTER == Chars(" } from ")

\* A named import that is always written with double quotes.
DoubleQuotedImport(content, m) ==
    IMPORT_OPEN \o m.name \o FROM_AFTER \o <<QUOTE>> \o m.spec \o <<QUOTE>>

\* A replacement that normalises the statement and leaves it a default
\* import.
RequotedImport(content, m) ==
    IMPORT \o <<" ">> \o m.name \o <<" ">> \o FROM \o <<" ", QUOTE>> \o m.spec \o <<QUOTE>>

\* The named import a matched statement is replaced by; quote is the single
\* quote if the statement holds one.
NamedImport(content, m) ==
    Bind(IF \E k \in m.start..(m.end - 1) : content[k] = "'" THEN "'" ELSE QUOTE,
         LAMBDA quote :
            IMPORT_OPEN \o m.name \o FROM_AFTER
                \o <<quote>> \o m.spec \o <<quote>>)

\* content.replace(oldStr, newStr): the first occurrence of oldStr gives way
\* to newStr (which holds no $ in the projects of the model).
ReplaceFirst(content, oldStr, newStr) ==
    Bind(IndexOf(content, oldStr, 1), LAMBDA at :
        IF at = 0 THEN content
        ELSE Slice(content, 1, at) \o newStr
                \o Slice(content, at + Len(oldStr), Len(content) + 1))

RECURSIVE ApplyReplacements(_, _)
\* for (const [oldStr, newStr] of replacements) content = content.replace(...)
ApplyReplacements(content, replacements) ==
    IF replacements = <<>> THEN content
    ELSE ApplyReplacements(ReplaceFirst(content, Head(replacements)[1], Head(replacements)[2]),
                           Tail(replacements))

\* replacements for the file f: one for every match whose resolved file has
\* no default export and exports importName.
replacements(sourceFiles, f) ==
    Bind(SelectSeq(AllMatches(f.content, DefaultImportAt, 1), LAMBDA m :
            IsMismatch(exportInfo(sourceFiles, resolvedRelPath(f.path, m.spec)), m.name)),
         LAMBDA ms :
            [k \in 1..Len(ms) |->
                <<Slice(f.content, ms[k].start, ms[k].end), NamedImport(f.content, ms[k])>>])

RECURSIVE FixFiles(_, _, _)
\* The second loop over sourceFiles from file k on: o is what the files
\* before it left; a file is written if it has a replacement.
FixFiles(sourceFiles, k, o) ==
    IF k > Len(sourceFiles) THEN o
    ELSE Bind(replacements(sourceFiles, sourceFiles[k]), LAMBDA rs :
            FixFiles(sourceFiles, k + 1,
                IF rs = <<>> THEN o
                ELSE Outcome(WriteFile(o.disk, sourceFiles[k].path,
                                       ApplyReplacements(sourceFiles[k].content, rs)),
                             Append(o.writes, sourceFiles[k].path), <<>>, <<>>)))

\* The function from its first line to its last.
FixedExports(d) == FixFiles(walkSrc(d), 1, Outcome(d, <<>>, <<>>, <<>>))

\* ------------------------------------------------------------------
\* The projects fixExports is run on
\* ------------------------------------------------------------------

\* What a module can hold, with what it means: whether it has a default
\* export, the names it declares with export function, const or class, and
\* the names it exports as named bindings in any way.
ExportForm(code, default, declared, exported) ==
    [text |-> Chars(code), default |-> default,
     declared |-> {Chars(n) : n \in declared}, exported |-> {Chars(n) : n \in exported}]

ExportForms ==
    {ExportForm("export function Button(){}", FALSE, {"Button"}, {"Button"}),
     ExportForm("export const Button = () => null", FALSE, {"Button"}, {"Button"}),
     ExportForm("export class Card {}\nexport function Button(){}", FALSE,
                {"Card", "Button"}, {"Card", "Button"}),
     ExportForm("export function Card(){}", FALSE, {"Card"}, {"Card"}),
     ExportForm("export default function Button(){}", TRUE, {}, {}),
     ExportForm("export const Button = () => null\nexport default Button", TRUE,
                {"Button"}, {"Button"}),
     ExportForm("export async function Button(){}", FALSE, {}, {"Button"})}

\* What a line of an importing module can be: a default import (name, spec
\* and quote are its parts) or anything else.
ImportForm(code, default, name, spec, quote) ==
    [text |-> Chars(code), default |-> default, name |-> Chars(name),
     spec |-> Chars(spec), quote |-> quote]

ImportForms ==
    {ImportForm("import Button from \"./components/Button\"", TRUE,
                "Button", "./components/Button", QUOTE),
     ImportForm("import Button from \"../components/Button\"", TRUE,
                "Button", "../components/Button", QUOTE),
     ImportForm("import Button from '../components/Button'", TRUE,
                "Button", "../components/Button", "'"),
     ImportForm("import Button from \"@/components/Button\"", TRUE,
                "Button", "@/components/Button", QUOTE),
     ImportForm("import Card from \"../components/Button\"", TRUE,
                "Card", "../components/Button", QUOTE),
     ImportForm("import clsx from \"clsx\"", TRUE, "clsx", "clsx", QUOTE),
     ImportForm("import { Button } from \"../components/Button\"", FALSE,
                "", "", QUOTE)}

\* A project: the module of the component, at the root or below src, the
\* page that imports it, and an installed package that imports it as well.
ExportProjects ==
    {<<File(target, e.text),
       File("pages/index.ts", Join([k \in 1..Len(ls) |-> ls[k].text], NEWLINE)),
       File("node_modules/ui/index.js",
            Chars("import Button from \"../../components/Button\""))>> :
        target \in {"components/Button.ts", "src/components/Button.tsx"},
        e \in ExportForms,
        ls \in SeqsUpTo(ImportForms, MaxImportLines) \ {<<>>}}

\* ------------------------------------------------------------------
\* fixExports, one run a step
\* ------------------------------------------------------------------

FixExportsInit ==
    /\ disk \in ExportProjects
    /\ impl = "fixExports"
    /\ runs = 0
    /\ writes = <<>>
    /\ added = <<>>
    /\ commands = <<>>
    /\ VerifyIdle
    /\ PipelineIdle
    /\ ExtractIdle
    /\ CompleteIdle

fixImportExportMismatches ==
    /\ impl = "fixExports"
    /\ runs < MaxRuns
    /\ \E o \in {FixedExports(disk)} : Ran(o)

FixExportsSpec == FixExportsInit /\ [][fixImportExportMismatches]_vars

\* ------------------------------------------------------------------
\* Claims about fixExports
\* ------------------------------------------------------------------

PAGE == Chars("pages/index.ts")
BUTTON_TS == Chars("components/Button.ts")

\* What a line means: the form it is the text of, or a line that is no
\* default import.
FormOf(line) ==
    IF \E f \in ImportForms : f.text = line
    THEN CHOOSE f \in ImportForms : f.text = line
    ELSE [text |-> line, default |-> FALSE, name |-> <<>>, spec |-> <<>>, quote |-> QUOTE]

\* What a module means: the form it is the text of, or a module that
\* exports nothing.
ModuleOf(content) ==
    IF \E e \in ExportForms : e.text = content
    THEN CHOOSE e \in ExportForms : e.text = content
    ELSE [text |-> content, default |-> FALSE, declared |-> {}, exported |-> {}]

\* The modules of the project an import of spec in the file at path from
\* stands for: the source files of the project at the path spec resolves to
\* from the directory of the importing file (from src for the path alias),
\* with or without an extension.  None for a package.
TargetsOf(d, from, spec) ==
    IF ~IsLocalSpecifier(spec) THEN {}
    ELSE {ModuleOf(f.content) : f \in {g \in SourcesOf(d) :
            \E c \in {candidates(resolvedRelPath(from, spec))} :
                \E k \in 1..Len(c) : c[k] = g.path}}

\* Line k of the file at path on disk d.
LineOf(d, path, k) == Split(ReadFile(d, path), NEWLINE)[k]

\* The lines of the file at path on disk d, each with what it means.
FormsOf(d, path) ==
    Bind(Split(ReadFile(d, path), NEWLINE), LAMBDA ls : [k \in 1..Len(ls) |-> FormOf(ls[k])])

\* A line of the file at path that is a default import of a module of the
\* project without a default export, where names(module) holds its name.
Mismatched(d, path, form, names(_)) ==
    /\ form.default
    /\ \E m \in TargetsOf(d, path, form.spec) : ~m.default /\ form.name \in names(m)

\* import { X } from "<spec>" with the quote of the form.
NamedFormOf(form) ==
    IMPORT_OPEN \o form.name \o FROM_AFTER
        \o <<form.quote>> \o form.spec \o <<form.quote>>

\* C17: a run rewrites a line only if it is a default import of a module of
\* the project that has no default export and exports the imported name;
\* every other line and every file without such a line is left as it is, and
\* no file is created or removed.
C17_RewritesOnlyMismatches ==
    [][IsRun =>
        /\ Len(disk') = Len(disk)
        /\ \A f \in 1..Len(disk) :
            /\ disk'[f].path = disk[f].path
            /\ \E before \in {FormsOf(disk, disk[f].path)} :
               \E after \in {Split(disk'[f].content, NEWLINE)} :
                /\ Len(after) = Len(before)
                /\ \A k \in 1..Len(before) :
                    after[k] # before[k].text
                        => /\ disk[f] \in SourcesOf(disk)
                           /\ Mismatched(disk, disk[f].path, before[k],
                                         LAMBDA m : m.exported)
                /\ disk[f].path \in NewWrites
                        => \E k \in 1..Len(before) : after[k] # before[k].text]_vars

\* A page with a mismatched import and an import of a package has been
\* rewritten: the first is a named import now, the second is as it was.
C17_OnlyTheMismatchRewritten ==
    /\ impl = "fixExports"
    /\ runs = 1
    /\ ReadFile(disk, PAGE)
            = Chars("import { Button } from \"../components/Button\"\nimport clsx from \"clsx\"")
    /\ writes = <<PAGE>>

\* The lines of the source files a run has to rewrite, names(module) being
\* the names that count as the named exports of a module: each is the named
\* import of the same name, specifier and quote afterwards.
RewritesAll(names(_)) ==
    \A f \in SourcesOf(disk) :
        \E before \in {FormsOf(disk, f.path)} :
            \A k \in 1..Len(before) :
                Mismatched(disk, f.path, before[k], names)
                    => LineOf(disk', f.path, k) = NamedFormOf(before[k])

\* Scenario E: components/Button.ts is export function Button(){} and
\* pages/index.ts is import Button from "./components/Button".
ScenarioE(d) ==
    /\ HasFile(d, BUTTON_TS)
    /\ ReadFile(d, BUTTON_TS) = Chars("export function Button(){}")
    /\ ReadFile(d, PAGE)
            = Chars("import Button from \"./components/Button\"")

\* C18 as stated: a default import of a module of the project that has no
\* default export and a named export of that name is rewritten to the named
\* import with the same specifier and quote, the import of Scenario E too.
C18_MismatchesRewritten ==
    [][IsRun =>
        /\ RewritesAll(LAMBDA m : m.exported)
        /\ ScenarioE(disk) =>
                ReadFile(disk', PAGE)
                    = Chars("import { Button } from \"./components/Button\"")]_vars

\* C18 as the code has it: the named exports are the names declared with
\* export function, const or class, and the specifier is resolved from the
\* directory of the importing file, so that the import of Scenario E, which
\* names no module of the project, stays as it is.
C18_DeclaredMismatchesRewritten ==
    [][IsRun =>
        /\ RewritesAll(LAMBDA m : m.declared)
        /\ ScenarioE(disk) => disk' = disk]_vars

\* Scenario E with the specifier "../components/Button", in single quotes,
\* has been rewritten.
C18_ParentImportRewritten ==
    /\ impl = "fixExports"
    /\ runs = 1
    /\ HasFile(disk, BUTTON_TS)
    /\ ReadFile(disk, BUTTON_TS) = Chars("export function Button(){}")
    /\ ReadFile(disk, PAGE)
            = Chars("import { Button } from '../components/Button'")

\* ------------------------------------------------------------------
\* verifyBuildLocally (src/patch-daemon.py), one await a step
\* ------------------------------------------------------------------

MODULE_NOT_FOUND == Chars("Module not found")
CANNOT_FIND_MODULE == Chars("Cannot find module '")
COMMAND_FAILED == Chars("Error: Command failed: ")
CD == Chars("cd \"")
NPM_RUN_BUILD == Chars("\" && npm run build 2>&1")
NPM_INSTALL_LIST == Chars("\" && npm install ")
LEGACY_PEER_DEPS == Chars(" --legacy-peer-deps 2>&1 || true")

\* { timeout: 180000 } of the builds and { timeout: 60000 } of the install.
BuildTimeoutMs == 180000
InstallTimeoutMs == 60000

\* '([^']+)' at position q of t, for a match that starts at position start:
\* an apostrophe, at least one character up to the next apostrophe, and
\* that apostrophe.
ApostrophesAt(t, start, q) ==
    IF q > Len(t) \/ t[q] # "'" THEN NoMatch
    ELSE Bind({k \in (q + 1)..Len(t) : t[k] = "'"}, LAMBDA closing :
            IF closing = {} \/ Least(closing) = q + 1 THEN NoMatch
            ELSE Match(Slice(t, q + 1, Least(closing)), start, Least(closing) + 1))

\* /Module not found[^']*'([^']+)'/ at position i of t: [^']* runs up to the
\* first apostrophe behind the words, whatever line it stands in.
ModuleNotFoundAt(t, i) ==
    IF ~StartsWithAt(t, MODULE_NOT_FOUND, i) THEN NoMatch
    ELSE Bind({k \in (i + Len(MODULE_NOT_FOUND))..Len(t) : t[k] = "'"}, LAMBDA opening :
            IF opening = {} THEN NoMatch ELSE ApostrophesAt(t, i, Least(opening)))

\* /Cannot find module '([^']+)'/ at position i of t.
CannotFindModuleAt(t, i) ==
    IF ~StartsWithAt(t, CANNOT_FIND_MODULE, i) THEN NoMatch
    ELSE ApostrophesAt(t, i, i + Len(CANNOT_FIND_MODULE) - 1)

\* const allMatches = [...errStr.matchAll(...), ...errStr.matchAll(...)]
allMatches(err) ==
    AllMatches(err, ModuleNotFoundAt, 1) \o AllMatches(err, CannotFindModuleAt, 1)

\* const skipPrefixes = [".", "/", "~"]
skipPrefixes == <<".", "/", "~">>

\* skipPrefixes.some(ch => basePkg.startsWith(ch))
IsSkipped(basePkg) ==
    \E k \in 1..Len(skipPrefixes) : StartsWithAt(basePkg, <<skipPrefixes[k]>>, 1)

\* missingModules once the loop over allMatches is over: the base packages
\* that are not skipped, in the order a Set keeps them.
missingModules(err) ==
    Bind(allMatches(err), LAMBDA ms :
        Distinct(SelectSeq([k \in 1..Len(ms) |-> BasePkg(ms[k].spec)],
                           LAMBDA basePkg : ~IsSkipped(basePkg))))

\* A test that lets the repair be tried whatever was found.
InstallAlways(missing) == TRUE

\* if (missingModules.size > 0)
ShouldInstall(missing) == Len(missing) > 0

\* Array.from(missingModules).join(" ")
pkgList(missing) == Join(missing, " ")

\* A command handed to execAsync, with its timeout.
Exec(cmd, timeout) == [cmd |-> cmd, timeout |-> timeout]

\* execAsync of the build, in the try block and behind the install.
BuildCommand(projectPath) == Exec(CD \o projectPath \o NPM_RUN_BUILD, BuildTimeoutMs)

\* execAsync of the install of the missing packages.
InstallCommand(projectPath, missing) ==
    Exec(CD \o projectPath \o NPM_INSTALL_LIST \o pkgList(missing) \o LEGACY_PEER_DEPS,
         InstallTimeoutMs)

\* String(error) of the rejection of execAsync: the name of the error, the
\* command that failed and, line by line, what the run of it printed.
StringOfError(command, printed) ==
    COMMAND_FAILED \o command.cmd \o <<NEWLINE>>
        \o Join([k \in 1..Len(printed) |-> printed[k].code], NEWLINE)

\* ------------------------------------------------------------------
\* The builds verifyBuildLocally is run on
\* ------------------------------------------------------------------

\* The lines of the output of a failed build.
MaxErrorLines == 2

\* The project that is verified.
PROJECT_PATH == Chars("/root/mvp-projects/web/app")

\* The specifiers a build misses: packages, one with a subpath, a scoped
\* one, relative and absolute paths, and the path aliases.
MissingSpecifiers ==
    {Chars(m) : m \in {"uuid", "lodash/fp", "@radix-ui/react-slot", "./util", "../lib/db",
                       "/app/lib/db", "@/components/Button", "~/lib/db"}}

\* A line of build output with the specifier it reports as missing (<<>>
\* for a line that reports none).
ErrorLine(code, spec) == [code |-> code, spec |-> spec]

\* The lines a failed build prints: the bundler's and the compiler's reports
\* of a module that is missing, and a type error.
ErrorLines ==
    UNION {{ErrorLine(Chars("Module not found: Can't resolve '") \o m \o <<"'">>, m),
            ErrorLine(Chars("Module not found: Error: Cannot resolve module '")
                        \o m \o <<"'">>, m),
            ErrorLine(Chars("Cannot find module '") \o m
                        \o Chars("' or its corresponding type declarations."), m)}
           : m \in MissingSpecifiers}
    \cup {ErrorLine(Chars("Type error: Property 'id' does not exist on type 'User'."), <<>>)}

\* What a failed build printed: up to MaxErrorLines of these lines.
BuildOutputs == SeqsUpTo(ErrorLines, MaxErrorLines)

\* ------------------------------------------------------------------
\* buildMVP: the stages between the written files and the deployment
\* (src/patch-daemon.py, new_install)
\* ------------------------------------------------------------------

\* idea.type
IdeaTypes == {"web", "saas", "mobile", "extension"}

\* A wiring that verifies the build before the tree is repaired.
StagesVerifyFirst(type) ==
    IF type = "extension" THEN <<>>
    ELSE (IF type \in {"web", "saas"} THEN <<"verify">> ELSE <<>>)
            \o (IF type # "mobile" THEN <<"reconcile", "fixExports">> ELSE <<>>)
            \o <<"install">>

\* The stages the nested conditions of the wiring run for an idea of the
\* type, in the order of the statements.
StagesOf(type) ==
    IF type = "extension" THEN <<>>
    ELSE (IF type # "mobile" THEN <<"reconcile", "fixExports">> ELSE <<>>)
            \o <<"install">>
            \o (IF type \in {"web", "saas"} THEN <<"verify">> ELSE <<>>)

\* The stage buildMVP runs next, "" when none is left.
NextStage ==
    IF stagesDone < Len(StagesOf(ideaType)) THEN StagesOf(ideaType)[stagesDone + 1] ELSE ""

\* A try block around a stage's writes that does not reach the manifest's.
HandlerOfSourcesOnly(s, place) ==
    IF s = "fixExports" THEN "file"
    ELSE IF s = "install" THEN "wiring"
    ELSE "none"

\* The catch block an exception thrown at the place of the stage ends in:
\* that of the file's iteration, that of the function, that of the wiring
\* around the install; "none" where no try block is around the place.
HandlerOf(s, place) ==
    IF s = "reconcile" /\ place = "writeFile" THEN "function"
    ELSE IF s = "fixExports" /\ place = "writeFile" THEN "file"
    ELSE IF s = "install" /\ place = "exec" THEN "wiring"
    ELSE "none"

\* { timeout: 120000 } of the install of the wiring.
WiringInstallTimeoutMs == 120000
NPM_INSTALL_LEGACY == Chars("npm install --legacy-peer-deps 2>&1 || true")

\* What the builds of the projects of buildMVP print when they fail.
WiringOutputs ==
    {<<>>,
     <<ErrorLine(Chars("Type error: Property 'id' does not exist on type 'User'."), <<>>)>>,
     <<ErrorLine(Chars("Cannot find module 'uuid' or its corresponding type declarations."),
                 Chars("uuid"))>>}

VerifyInit ==
    /\ disk = <<>>
    /\ impl = "verify"
    /\ runs = 0
    /\ writes = <<>>
    /\ added = <<>>
    /\ commands = <<>>
    /\ VerifyIdle
    /\ PipelineIdle
    /\ ExtractIdle
    /\ CompleteIdle

\* What verifyBuildLocally never touches.
VerifyFrame == UNCHANGED <<disk, impl, writes, added, pipeVars, extractVars, completeVars>>

\* return true and return false
ReturnVerdict(v) ==
    /\ step' = "done"
    /\ verdict' = v
    /\ UNCHANGED commands

\* execAsync(cmd) is started.
Started(s, command) ==
    /\ step' = s
    /\ commands' = Append(commands, command)
    /\ UNCHANGED verdict

\* The call: the build is started in the try block.
verifyBuildLocally ==
    /\ step = "idle"
    /\ IF impl = "buildMVP"
       THEN /\ phase = "ready"
            /\ NextStage = "verify"
            /\ phase' = "verifying"
            /\ trail' = Append(trail, "verify")
            /\ UNCHANGED <<ideaType, stagesDone, plan, cursor, fd, atStart, escaped>>
       ELSE /\ impl = "verify"
            /\ UNCHANGED pipeVars
    /\ runs' = runs + 1
    /\ Started("build", BuildCommand(PROJECT_PATH))
    /\ UNCHANGED <<output, errStr, reported, outcomes>>
    /\ UNCHANGED <<disk, impl, writes, added, extractVars, completeVars>>

\* The build ends without an error: return true.
BuildResolved ==
    /\ step = "build"
    /\ outcomes' = Append(outcomes, "resolved")
    /\ ReturnVerdict("true")
    /\ UNCHANGED <<runs, output, errStr, reported>>
    /\ VerifyFrame

\* The build fails or runs into its timeout: the catch block reads the
\* missing modules out of the error and starts their install, or returns
\* false when it reads none.
BuildRejected ==
    /\ step = "build"
    /\ \E printed \in (IF impl = "buildMVP" THEN WiringOutputs ELSE BuildOutputs) :
            /\ output' = printed
            /\ errStr' = StringOfError(commands[Len(commands)], printed)
    /\ reported' \in {missingModules(errStr')}
    /\ outcomes' = Append(outcomes, "rejected")
    /\ IF ShouldInstall(reported')
       THEN Started("install", InstallCommand(PROJECT_PATH, reported'))
       ELSE ReturnVerdict("false")
    /\ UNCHANGED runs
    /\ VerifyFrame

\* The install ends (|| true hides its exit status): the build is started
\* once more.
InstallResolved ==
    /\ step = "install"
    /\ outcomes' = Append(outcomes, "resolved")
    /\ Started("rebuild", BuildCommand(PROJECT_PATH))
    /\ UNCHANGED <<runs, output, errStr, reported>>
    /\ VerifyFrame

\* The install runs into its timeout: the inner catch block, return false.
InstallRejected ==
    /\ step = "install"
    /\ outcomes' = Append(outcomes, "rejected")
    /\ ReturnVerdict("false")
    /\ UNCHANGED <<runs, output, errStr, reported>>
    /\ VerifyFrame

\* The second build ends without an error: return true.
RebuildResolved ==
    /\ step = "rebuild"
    /\ outcomes' = Append(outcomes, "resolved")
    /\ ReturnVerdict("true")
    /\ UNCHANGED <<runs, output, errStr, reported>>
    /\ VerifyFrame

\* The second build fails: the inner catch block, return false.
RebuildRejected ==
    /\ step = "rebuild"
    /\ outcomes' = Append(outcomes, "rejected")
    /\ ReturnVerdict("false")
    /\ UNCHANGED <<runs, output, errStr, reported>>
    /\ VerifyFrame

VerifyNext ==
    \/ verifyBuildLocally
    \/ BuildResolved
    \/ BuildRejected
    \/ InstallResolved
    \/ InstallRejected
    \/ RebuildResolved
    \/ RebuildRejected

VerifySpec == VerifyInit /\ [][VerifyNext]_vars

\* ------------------------------------------------------------------
\* Claims about verify
\* ------------------------------------------------------------------

\* The commands run so far that are builds, and those that are installs.
Builds == {k \in 1..Len(commands) : commands[k] = BuildCommand(PROJECT_PATH)}
Installs == {k \in 1..Len(commands) : commands[k].timeout = InstallTimeoutMs}

\* The first build has failed and the catch block has run.
FirstBuildFailed == Len(outcomes) >= 1 /\ outcomes[1] = "rejected"

\* verifyBuildLocally has returned after a failed first build.
ReturnedAfterFailure == step = "done" /\ FirstBuildFailed

\* The install of the packages read from the error was started second.
InstalledMissing ==
    /\ Len(commands) >= 2
    /\ commands[2] = InstallCommand(PROJECT_PATH, reported)
    /\ Cardinality(Installs) = 1

\* C19 as stated: the build command runs at most twice and the install
\* command at most once; after a failed first build every returned missing
\* package is installed and the build is run exactly once more; if the
\* second build fails as well the verdict is failure.
C19_RebuiltAfterEveryFailure ==
    /\ Cardinality(Builds) <= 2
    /\ Cardinality(Installs) <= 1
    /\ ReturnedAfterFailure =>
            /\ InstalledMissing
            /\ Cardinality(Builds) = 2
            /\ Len(outcomes) = 3
            /\ outcomes[3] = "rejected" => verdict = "false"

\* verifyBuildLocally has returned after a failed first build as the code
\* has it: without a package read from the error, one build and failure;
\* with one, the install of them all, then failure if the install did not
\* end, else the second build and its outcome as the verdict.
RepairedOnce ==
    IF reported = <<>>
    THEN commands = <<BuildCommand(PROJECT_PATH)>> /\ verdict = "false"
    ELSE /\ InstalledMissing
         /\ IF outcomes[2] = "resolved"
            THEN /\ Len(commands) = 3
                 /\ Cardinality(Builds) = 2
                 /\ Len(outcomes) = 3
                 /\ verdict = IF outcomes[3] = "resolved" THEN "true" ELSE "false"
            ELSE Len(commands) = 2 /\ verdict = "false"

\* C19, amended: the build command runs at most twice and the install
\* command at most once; after a failed first build from whose error at
\* least one missing package is read, the install is started once with every
\* such package and, if it ends within its timeout, the build is run exactly
\* once more; when no package is read or the install does not end, the
\* verdict is failure without a second build; if the second build fails the
\* verdict is failure, and once there is a verdict no command is started.
C19_RepairBounded ==
    /\ [](/\ Cardinality(Builds) <= 2
          /\ Cardinality(Installs) <= 1
          /\ ReturnedAfterFailure => RepairedOnce)
    /\ [][verdict # "" => commands' = commands]_vars

\* The install was run and the second build failed: the verdict is failure.
C19_SecondBuildFailed ==
    /\ step = "done"
    /\ Len(commands) = 3
    /\ outcomes = <<"rejected", "resolved", "rejected">>
    /\ verdict = "false"

\* A specifier that names a file of the project and no package: a relative
\* or absolute path, or one under a path alias.
TILDE_ALIAS == Chars("~/")
IsLocalModule(spec) == IsLocalSpecifier(spec) \/ StartsWithAt(spec, TILDE_ALIAS, 1)

\* The base packages of the specifiers the lines of a build output report
\* as missing, the local ones left out.
MissingPackagesOf(printed) ==
    {BasePkg(printed[k].spec) :
        k \in {q \in 1..Len(printed) :
                    printed[q].spec # <<>> /\ ~IsLocalModule(printed[q].spec)}}

\* The packages missingModules holds.
PackagesIn(missing) == {missing[k] : k \in 1..Len(missing)}

\* C20: on a failed build missingModules is exactly the set of the base
\* packages of the specifiers the output reports in one of the two error
\* shapes, without any local specifier, and that is what the install
\* command is given.
C20_ReportsMissingPackages ==
    FirstBuildFailed =>
        /\ PackagesIn(reported) = MissingPackagesOf(output)
        /\ Len(commands) >= 2 => commands[2] = InstallCommand(PROJECT_PATH, reported)

\* ------------------------------------------------------------------
\* The answers the scans of extractJSON are looked at on
\* ------------------------------------------------------------------

\* A record whose content holds brackets, a quote and a backslash, and an
\* object without a path.
RecQ == FileObj(<<"q">>, <<"[", QUOTE, "]", BSLASH>>)
NoPathObject == <<"{">> \o Field(CONTENT, <<"x">>) \o <<"}">>

\* Arrays of an answer: the record alone, the record followed by the object
\* without a path, and an array cut off within the content of its record.
ArrayQ == Serialize(<<RecQ>>)
MixedArray == Truncated(ArrayQ) \o <<",">> \o NoPathObject \o <<"]">>
CutContent == SubSeq(ArrayD, 1, Len(ArrayD) - 3)

\* The blocks of these answers: arrays behind a word of commentary, arrays
\* that are cut off, and a plain and a json fence.
ScanBlocks ==
    {Commented(ArrayQ), Commented(MixedArray), Commented(ArrayA), Bare(CutContent),
     Bare(CutArray), Fenced(ArrayA), Fenced(CutArray), FencedJson(ArrayD)}

ScanTexts == {Flatten(bs) : bs \in SeqsUpTo(ScanBlocks, MaxBlocks)}

ScanInit ==
    /\ text \in ScanTexts
    /\ given = <<>>
    /\ origin = "composed"
    /\ stage = 1
    /\ winner = 0
    /\ result = <<>>
    /\ raised = FALSE
    /\ CompleteIdle
    /\ ProjectIdle

ScanSpec == ScanInit /\ [][ExtractNext]_vars

\* ------------------------------------------------------------------
\* Claims about the scans
\* ------------------------------------------------------------------

\* The positions at which a well-formed JSON array that starts at position p
\* of t ends.
ArrayEnds(t, p) ==
    {q \in (p + 1)..Len(t) :
        /\ t[q] = "]"
        /\ Bind(JSONParse(Slice(t, p, q + 1)), LAMBDA r : r.ok /\ r.v.t = "arr")}

\* Position p of t holds a "[" that strategy 3 takes for the start of a
\* candidate.
IsCandidateStart(t, p) ==
    /\ t[p] = "["
    /\ StartsWithAt(Trim(Slice(t, p + 1, p + AfterBracketWindow)), <<"{">>, 1)

\* C23: for a candidate that starts at the "[" of a well-formed JSON array,
\* the depth-tracking loop ends at the "]" that closes that array, whatever
\* brackets, escaped quotes and escaped backslashes its strings hold.
C23_ScanClosesAtMatchingBracket ==
    \A p \in 1..Len(text) :
        IsCandidateStart(text, p) =>
            \A q \in ArrayEnds(text, p) : MatchBracket(text, p) = q

\* Strategy 3 has returned the record whose content holds "[", an escaped
\* quote, "]" and an escaped backslash.
C23_BracketsInStringScanned ==
    /\ winner = 3
    /\ text = Commented(ArrayQ)
    /\ ArrayEnds(text, 3) = {Len(text) - 1}
    /\ result = <<RecQ>>

\* An element of a parsed array is an object that has a path.
ExposesPath(v) == v.t = "obj" /\ HasKey(v, PATH)

\* C24: what the bracket-depth strategy returns is a non-empty array whose
\* every element is an object with a path; a candidate that holds an element
\* without one is not returned.
C24_EveryElementHasPath ==
    winner = 3 =>
        /\ Len(result) > 0
        /\ \A k \in 1..Len(result) : ExposesPath(result[k])

RECURSIVE FileMatches(_, _)
\* The successive matches of filePattern in t from position from on.
FileMatches(t, from) ==
    Bind({p \in from..Len(t) : MatchFilePattern(t, p).ok}, LAMBDA hits :
        IF hits = {} THEN <<>>
        ELSE Bind(MatchFilePattern(t, Least(hits)),
                  LAMBDA m : <<m>> \o FileMatches(t, m.end)))

\* The string literal whose body starts at position i of t: [ok, v, pos], ok
\* when it is closed by a quote of its own.
OwnLiteral(t, i) == ParseStringBody(t, i, <<>>)

\* The records of the matches whose content literal is closed, in order:
\* path as matched, content the value of the literal.
ClosedRecords(t) ==
    Bind(SelectSeq(FileMatches(t, 1), LAMBDA m : OwnLiteral(t, m.end).ok), LAMBDA ms :
        [k \in 1..Len(ms) |-> FileObj(ms[k].path, OwnLiteral(t, ms[k].end).v.s)])

RECURSIVE IsSubsequence(_, _)
\* Whether a is b with some of its elements left out.
IsSubsequence(a, b) ==
    IF a = <<>> THEN TRUE
    ELSE IF b = <<>> THEN FALSE
    ELSE IF Head(a) = Head(b) THEN IsSubsequence(Tail(a), Tail(b))
    ELSE IsSubsequence(a, Tail(b))

\* C25: every record per-object salvage returns is the record of a match
\* whose content literal is closed, with the unescaped value of that literal
\* for content; a match whose literal is not closed gives no record.
C25_SalvageNeverFabricates == winner = 4 => IsSubsequence(result, ClosedRecords(text))

\* Salvage has dropped the record whose content is cut off and returned the
\* one behind it, whose literal is closed.
C25_CutContentDropped ==
    /\ winner = 4
    /\ text = Bare(CutContent) \o Bare(CutArray)
    /\ Len(FileMatches(text, 1)) = 2
    /\ result = <<RecA>>

JSON_TAG == <<"j", "s", "o", "n">>

RECURSIVE FencedRegions(_, _)
\* The fenced regions of t from position from on, in the order the fences
\* appear: what stands between an opening fence, tagged json or not, and the
\* next fence.
FencedRegions(t, from) ==
    Bind(IndexOf(t, FENCE, from), LAMBDA p :
        IF p = 0 THEN <<>>
        ELSE Bind(IF StartsWithAt(t, JSON_TAG, p + Len(FENCE))
                  THEN p + Len(FENCE_JSON) ELSE p + Len(FENCE), LAMBDA a :
                Bind(IndexOf(t, FENCE, a), LAMBDA q :
                    IF q = 0 THEN <<>>
                    ELSE <<Slice(t, a, q)>> \o FencedRegions(t, q + Len(FENCE)))))

\* C26: the fenced regions, tagged json or not, are tried in the order the
\* fences appear in the text: what fenced-block extraction returns is the
\* parse of the earliest region that parses.
C26_EarliestFenceWins ==
    winner = 2 => Return(result) = TryBlocks(FencedRegions(text, 1))

\* ------------------------------------------------------------------
\* Claims about the chunks and the attempts of kimiComplete
\* ------------------------------------------------------------------

\* Nothing read yet: no text, no reasoning, no chunk.
NothingRead == [fullContent |-> <<>>, reasoningContent |-> <<>>, chunkCount |-> 0]

\* What each of the chunks read so far holds by itself.
OwnDeltas == [k \in 1..Len(received) |-> ProcessChunk(NothingRead, received[k])]

\* C28: what an attempt has accumulated at the end of the stream depends on
\* the lines of the body only: it is what the body gives when it arrives in
\* one chunk, however the transport has cut it.
C28_ChunkingDoesNotMatter ==
    pc = "finalizing" =>
        /\ fullContent = ProcessChunk(NothingRead, Flatten(received)).fullContent
        /\ reasoningContent = ProcessChunk(NothingRead, Flatten(received)).reasoningContent

\* The attempts the calls that are looked at for the retries allow.
RetryAttempts == 2

\* kimiComplete is called with no attempt to make, or with RetryAttempts.
RetryInit == CompleteInit /\ retries \in {0, RetryAttempts}

RetrySpec == RetryInit /\ [][CompleteNext]_vars

\* C29: both accumulators are empty when an attempt starts to read its
\* response, whatever an earlier attempt has left; and what kimiComplete
\* returns is the final content of accumulators that hold the deltas of the
\* chunks of the attempt that returns, and nothing else.
C29_OnlyDeltasOfTheAttempt ==
    /\ []((pc = "reading" /\ received = <<>>) =>
            (fullContent = <<>> /\ reasoningContent = <<>>))
    /\ [](pc = "returned" =>
            /\ returned = FinalContent(Accumulated)
            /\ \E own \in {OwnDeltas} :
                /\ fullContent = Flatten([k \in 1..Len(own) |-> own[k].fullContent])
                /\ reasoningContent
                        = Flatten([k \in 1..Len(own) |-> own[k].reasoningContent]))

\* The first attempt has read a content delta and failed, the accumulator
\* still holding it, and the second attempt is about to read its response.
C29_RetryAfterPartialRead ==
    /\ pc = "fetching"
    /\ attempt = 2
    /\ lastError = [n |-> 1, e |-> "network"]
    /\ fullContent # <<>>

\* ------------------------------------------------------------------
\* Projects whose importing modules export as well
\* ------------------------------------------------------------------

CARD_TS == Chars("components/Card.ts")

\* What the module of the card starts with: an import of the button.
CardImports ==
    {Chars("import Button from \"./Button\""),
     Chars("import Button from './Button'"),
     Chars("import   Button   from \"./Button\""),
     Chars("import { Button } from \"./Button\"")}

\* What the module of the card exports, after its import or on its line.
CardExports ==
    {<<NEWLINE>> \o Chars("export function Card(){ return Button }"),
     <<NEWLINE>> \o Chars("export const Card = Button"),
     <<NEWLINE>> \o Chars("export default function Card(){ return Button }"),
     <<NEWLINE>> \o Chars("export function Card(){}\nexport default Card"),
     Chars("; export class Card {}")}

\* What the page imports.
PageImports ==
    {Chars("import Card from \"../components/Card\""),
     Chars("import Card from \"@/components/Card\"\nimport Button from \"../components/Button\""),
     Chars("import Button from \"../components/Button\"\nimport Button from \"../components/Button\"")}

\* The orders the walk can list three files in.
WalkOrders == {<<1, 2, 3>>, <<3, 2, 1>>, <<2, 3, 1>>}

\* A project: the button, the card that imports it and exports, and the page
\* that imports both, as the walk lists them.
IndexProjects ==
    {[k \in 1..3 |->
        <<File("components/Button.ts", e.text),
          [path |-> CARD_TS, content |-> ci \o ce],
          File("pages/index.ts", pi)>>[order[k]]] :
        e \in ExportForms, ci \in CardImports, ce \in CardExports,
        pi \in PageImports, order \in WalkOrders}

IndexInit ==
    /\ disk \in IndexProjects
    /\ impl = "fixExports"
    /\ runs = 0
    /\ writes = <<>>
    /\ added = <<>>
    /\ commands = <<>>
    /\ VerifyIdle
    /\ PipelineIdle
    /\ ExtractIdle
    /\ CompleteIdle

IndexSpec == IndexInit /\ [][fixImportExportMismatches]_vars

\* ------------------------------------------------------------------
\* Claims about the export index
\* ------------------------------------------------------------------

\* The set of the names an index entry holds.
NamesOf(names) == {names[k] : k \in 1..Len(names)}

\* C30: a run of fixExports changes no file's detected default-export flag
\* and no file's set of detected named exports, so the index built before the
\* rewriting holds for every file during and after it; and a run that follows
\* a run rewrites nothing.
C30_IndexKeptAndIdempotent ==
    [][IsRun =>
            /\ Len(disk') = Len(disk)
            /\ \A k \in 1..Len(disk) :
                    /\ disk'[k].path = disk[k].path
                    /\ hasDefault(disk'[k].content) = hasDefault(disk[k].content)
                    /\ NamesOf(namedExports(disk'[k].content))
                            = NamesOf(namedExports(disk[k].content))
            /\ runs >= 1 => (NewWrites = {} /\ disk' = disk)]_vars

\* Both runs are over; the first has rewritten the card, which exports, and
\* the page, whose import of the card was judged by the card's index entry.
C30_RewrittenModuleIsIndexed ==
    /\ runs = 2
    /\ \E k \in 1..Len(writes) : writes[k] = CARD_TS
    /\ \E k \in 1..Len(writes) : writes[k] = PAGE
    /\ namedExports(ReadFile(disk, CARD_TS)) # <<>>

\* ------------------------------------------------------------------
\* The stages of buildMVP, a step of a stage at a time
\* ------------------------------------------------------------------

\* The files a stage cannot read: none, the manifest, or a source file.
Unreadable(d) == {{}} \cup {{d[k].path} : k \in 1..Len(d)}

\* The files of d the stage reads: a read that throws ends in the catch block
\* around it, which leaves the file out.
Readable(d, unreadable) == SelectSeq(d, LAMBDA f : f.path \notin unreadable)

\* The calls of fs.writeFile a stage with the outcome o makes, in order.
PlanOf(o) ==
    [k \in 1..Len(o.writes) |->
        [path |-> o.writes[k], content |-> ReadFile(o.disk, o.writes[k]),
         added |-> o.added]]

\* How many calls of write the data of one file takes at most.
WritePieces == 2

\* How far the file is written after the next call of write.
NextWritten(content, written) ==
    Bind((Len(content) + WritePieces - 1) \div WritePieces, LAMBDA piece :
        IF written + piece >= Len(content) THEN Len(content) ELSE written + piece)

\* The projects buildMVP has written: a manifest that parses or one that
\* does not, the module of a component, and a page that imports a package
\* and the component.
WiringProjects ==
    {<<File("package.json", m),
       File("components/Button.ts", "export function Button(){}"),
       File("pages/index.ts", pg)>> :
        m \in {"{\"name\": \"app\"}", "{\"name\": \"app\",}"},
        pg \in {"import clsx from \"clsx\"\nimport Button from \"../components/Button\"",
                "import { Button } from \"../components/Button\""}}

WiringInit ==
    /\ disk \in {[k \in 1..Len(d) |-> [path |-> d[k].path, content |-> Chars(d[k].content)]] :
                    d \in WiringProjects}
    /\ impl = "buildMVP"
    /\ runs = 0
    /\ writes = <<>>
    /\ added = <<>>
    /\ commands = <<>>
    /\ VerifyIdle
    /\ ideaType \in IdeaTypes
    /\ phase = "ready"
    /\ stagesDone = 0
    /\ trail = <<>>
    /\ plan = <<>>
    /\ cursor = 1
    /\ fd = NoFd
    /\ atStart = <<>>
    /\ escaped = FALSE
    /\ ExtractIdle
    /\ CompleteIdle

\* What the steps of the stages that write leave alone.
WritingFrame ==
    UNCHANGED <<impl, commands, verifyVars, ideaType, extractVars, completeVars>>

\* A stage that writes is entered: it reads what it can read and settles
\* what it will write.
Entered(s, o) ==
    /\ phase' = "writing"
    /\ trail' = Append(trail, s)
    /\ plan' = PlanOf(o)
    /\ cursor' = 1
    /\ atStart' = disk
    /\ runs' = runs + 1
    /\ UNCHANGED <<disk, writes, added, stagesDone, fd, escaped>>
    /\ WritingFrame

\* await autoDetectAndInstallMissingPackages(projectPath), up to its write.
ReconcileEntered ==
    /\ impl = "buildMVP"
    /\ phase = "ready"
    /\ NextStage = "reconcile"
    /\ \E unreadable \in Unreadable(disk) :
            \E o \in {Reconciled(Readable(disk, unreadable))} : Entered("reconcile", o)

\* await fixImportExportMismatches(projectPath), up to its first write.
FixExportsEntered ==
    /\ impl = "buildMVP"
    /\ phase = "ready"
    /\ NextStage = "fixExports"
    /\ \E unreadable \in Unreadable(disk) :
            \E o \in {FixedExports(Readable(disk, unreadable))} : Entered("fixExports", o)

\* fs.writeFile opens the file: it is empty from now on.
FileOpened ==
    /\ phase = "writing"
    /\ fd = NoFd
    /\ cursor <= Len(plan)
    /\ disk' = WriteFile(disk, plan[cursor].path, <<>>)
    /\ fd' = [path |-> plan[cursor].path, written |-> 0]
    /\ UNCHANGED <<runs, writes, added, phase, stagesDone, trail, plan, cursor, atStart,
                   escaped>>
    /\ WritingFrame

\* fs.writeFile cannot open the file and throws: the catch block around the
\* call goes on with the next file, or ends the function; with no try block
\* around it the exception leaves the stage.
OpenRejected ==
    /\ phase = "writing"
    /\ fd = NoFd
    /\ cursor <= Len(plan)
    /\ \E h \in {HandlerOf(trail[Len(trail)], "writeFile")} :
            /\ cursor' = IF h = "file" THEN cursor + 1 ELSE Len(plan) + 1
            /\ escaped' = (h = "none")
            /\ phase' = IF h = "none" THEN "aborted" ELSE phase
    /\ UNCHANGED <<disk, runs, writes, added, stagesDone, trail, plan, fd, atStart>>
    /\ WritingFrame

\* A call of write puts the next piece of the data into the open file.
PieceWritten ==
    /\ phase = "writing"
    /\ fd # NoFd
    /\ fd.written < Len(plan[cursor].content)
    /\ \E n \in {NextWritten(plan[cursor].content, fd.written)} :
            /\ disk' = WriteFile(disk, fd.path, SubSeq(plan[cursor].content, 1, n))
            /\ fd' = [fd EXCEPT !.written = n]
    /\ UNCHANGED <<runs, writes, added, phase, stagesDone, trail, plan, cursor, atStart,
                   escaped>>
    /\ WritingFrame

\* The data is written and the file is closed: fs.writeFile resolves.
FileClosed ==
    /\ phase = "writing"
    /\ fd # NoFd
    /\ fd.written = Len(plan[cursor].content)
    /\ fd' = NoFd
    /\ writes' = Append(writes, fd.path)
    /\ added' = IF fd.path = PACKAGE_JSON THEN Append(added, plan[cursor].added) ELSE added
    /\ cursor' = cursor + 1
    /\ UNCHANGED <<disk, runs, phase, stagesDone, trail, plan, atStart, escaped>>
    /\ WritingFrame

\* The function returns to buildMVP.
StageReturned ==
    /\ phase = "writing"
    /\ fd = NoFd
    /\ cursor > Len(plan)
    /\ phase' = "ready"
    /\ stagesDone' = stagesDone + 1
    /\ plan' = <<>>
    /\ cursor' = 1
    /\ atStart' = <<>>
    /\ UNCHANGED <<disk, runs, writes, added, trail, fd, escaped>>
    /\ WritingFrame

\* The process ends while reconcile or fixExports runs: the files stay as
\* they are.
Crashed ==
    /\ phase = "writing"
    /\ phase' = "crashed"
    /\ UNCHANGED <<disk, runs, writes, added, stagesDone, trail, plan, cursor, fd, atStart,
                   escaped>>
    /\ WritingFrame

\* What the install of the wiring leaves alone.
InstallFrame ==
    UNCHANGED <<disk, impl, runs, writes, added, step, output, errStr, reported, verdict,
                ideaType, plan, cursor, fd, atStart, extractVars, completeVars>>

\* execAsync("npm install --legacy-peer-deps 2>&1 || true") is started.
InstallStarted ==
    /\ impl = "buildMVP"
    /\ phase = "ready"
    /\ NextStage = "install"
    /\ phase' = "installing"
    /\ trail' = Append(trail, "install")
    /\ commands' = Append(commands, Exec(NPM_INSTALL_LEGACY, WiringInstallTimeoutMs))
    /\ UNCHANGED <<stagesDone, escaped, outcomes>>
    /\ InstallFrame

\* The install ends.
InstallSettled ==
    /\ phase = "installing"
    /\ phase' = "ready"
    /\ stagesDone' = stagesDone + 1
    /\ outcomes' = Append(outcomes, "resolved")
    /\ UNCHANGED <<trail, commands, escaped>>
    /\ InstallFrame

\* The install runs into its timeout and execAsync rejects: the catch block
\* of the wiring is empty.
InstallTimedOut ==
    /\ phase = "installing"
    /\ \E h \in {HandlerOf("install", "exec")} :
            /\ escaped' = (h = "none")
            /\ phase' = IF h = "none" THEN "aborted" ELSE "ready"
            /\ stagesDone' = IF h = "none" THEN stagesDone ELSE stagesDone + 1
    /\ outcomes' = Append(outcomes, "rejected")
    /\ UNCHANGED <<trail, commands>>
    /\ InstallFrame

\* verifyBuildLocally has returned: buildOk is its verdict, and buildMVP goes
\* on to the deployment with it.
VerifyReturned ==
    /\ impl = "buildMVP"
    /\ phase = "verifying"
    /\ step = "done"
    /\ phase' = "ready"
    /\ stagesDone' = stagesDone + 1
    /\ UNCHANGED <<disk, impl, runs, writes, added, commands, verifyVars, ideaType, trail,
                   plan, cursor, fd, atStart, escaped, extractVars, completeVars>>

WiringNext ==
    \/ ReconcileEntered
    \/ FixExportsEntered
    \/ FileOpened
    \/ OpenRejected
    \/ PieceWritten
    \/ FileClosed
    \/ StageReturned
    \/ Crashed
    \/ InstallStarted
    \/ InstallSettled
    \/ InstallTimedOut
    \/ VerifyNext
    \/ VerifyReturned

WiringSpec == WiringInit /\ [][WiringNext]_vars

\* Every step that is enabled is taken in the end: the commands run under a
\* timeout, and the reads and writes of files end.
WiringFairSpec == WiringSpec /\ WF_vars(WiringNext)

\* ------------------------------------------------------------------
\* Claims about the stages of buildMVP
\* ------------------------------------------------------------------

\* The contents the stage that runs means a file to have when it is over.
PlannedFor(path) == {plan[j].content : j \in {n \in 1..Len(plan) : plan[n].path = path}}

\* C21: when the process ends while reconcile or fixExports runs, every file
\* of the project holds what it held when the stage began or what the stage
\* writes into it, whole.
C21_CrashLeavesOldOrNew ==
    phase = "crashed" =>
        \A k \in 1..Len(disk) :
            \/ /\ HasFile(atStart, disk[k].path)
               /\ disk[k].content = ReadFile(atStart, disk[k].path)
            \/ disk[k].content \in PlannedFor(disk[k].path)

\* The order of the stages for a web or saas idea.
WEB_STAGES == <<"reconcile", "fixExports", "install", "verify">>

\* C27: for a web or saas idea the stages begin in the order reconcile,
\* fixExports, install, verify, each when the one before it has returned, and
\* verifyBuildLocally is called only after reconcile and fixExports have run
\* and returned and the install has ended.
C27_StagesInOrder ==
    /\ [](ideaType \in {"web", "saas"} =>
            /\ Len(trail) <= Len(WEB_STAGES)
            /\ trail = SubSeq(WEB_STAGES, 1, Len(trail)))
    /\ [][(ideaType \in {"web", "saas"} /\ trail' # trail) =>
            /\ phase = "ready"
            /\ stagesDone = Len(trail)
            /\ Len(trail') = Len(trail) + 1]_vars
    /\ [][(ideaType \in {"web", "saas"} /\ step = "idle" /\ step' # "idle") =>
            /\ trail = <<"reconcile", "fixExports", "install">>
            /\ stagesDone = 3]_vars

\* A web idea has its verdict, and the tree the build ran on had its manifest
\* completed by reconcile and its page rewritten by fixExports.
C27_VerifiedAfterRepair ==
    /\ ideaType = "web"
    /\ verdict # ""
    /\ writes = <<PACKAGE_JSON, PAGE>>
    /\ trail = WEB_STAGES

\* C22: no exception leaves reconcile, fixExports or the install of the
\* wiring, whatever cannot be read, parsed or written and however the
\* commands end; a build or an install of verifyBuildLocally that fails or
\* runs into its timeout ends in the verdict false; and for a web or saas
\* idea buildMVP always comes to a verdict, unless the process ends before.
C22_NothingEscapes ==
    /\ [](~escaped /\ phase # "aborted")
    /\ []((step = "done" /\ outcomes[Len(outcomes)] = "rejected") => verdict = "false")
    /\ [](phase = "ready" /\ stagesDone = 4 => verdict # "")
    /\ (ideaType \in {"web", "saas"}) ~> (verdict # "" \/ phase = "crashed")

\* A web idea has the verdict false although its manifest does not parse,
\* nothing could be written (the page still holds an import that fixExports
\* rewrites), and the install of the wiring ran into its timeout.
C22_VerdictAfterFailures ==
    /\ ideaType = "web"
    /\ verdict = "false"
    /\ stagesDone = 4
    /\ writes = <<>>
    /\ ~JSONParse(ReadFile(disk, PACKAGE_JSON)).ok
    /\ FixedExports(disk).writes # <<>>
    /\ outcomes[1] = "rejected"
====
